---- MODULE Spec2Model ----
(***************************************************************************)
(* A model of the library's weighted-graph search engine                   *)
(* (src/src/search/weighted_graph.rs), its interval algebra                *)
(* (src/src/interval.rs) and its parser combinators (src/src/parse.rs).    *)
(*                                                                         *)
(* Each subsystem has its own specification over the shared variables:     *)
(*   SpecDijkstra  shortest_paths_to_many and the queries built on it      *)
(*   SpecCount     shortest_paths_to_many_with_count / shortest_path_count *)
(*   SpecInterval  DisjointIntervalUnion under union / subtract            *)
(*   SpecParse     the parser combinators and ParseState::finish           *)
(* A specification leaves the variables of the other subsystems unchanged. *)
(***************************************************************************)
EXTENDS Integers, Sequences, FiniteSets, Bags

VARIABLES
    graph,        \* HashMap<K, HashMap<K, C>>: graph[a][b] is cost(a, b)
    start,        \* the start key of the search
    finish,       \* the keys on which the early_finish predicate is true
    to_search,    \* the BinaryHeap frontier, a bag of (key, from, cost) entries
    results,      \* the precedent map: key -> (cost, precedents)
    pc,           \* position of the running call
    found,        \* Option<Key> returned by the search: {} or {k}
    poppedKeys,   \* keys popped from the frontier so far
    path,         \* shortest_path: the vector being built, last pushed key last
    pick,         \* shortest_path: the element precedents.iter().next() yields, per key
    intervals,    \* DisjointIntervalUnion.intervals
    points,       \* the plain point set the same operations produce
    lastOp,       \* the last interval operation applied
    parser,       \* the parser of the running parse call
    input,        \* the input &str of the running parse call
    s,            \* Many::parse: the remaining input
    many,         \* Many::parse: the ManyIter being filled
    out,          \* the ParseState the call produced
    fin,          \* the Result finish() produced
    ppc,          \* position of the running parse call
    grid,         \* the Grid under construction and mutation
    gridOp,       \* the last Grid operation and its arguments
    gridRet,      \* what the last Grid operation returned
    gridOld,      \* the Grid before the last operation
    next,         \* GridPointIterator.next
    traverse_by,  \* GridPointIterator.traverse_by
    grid_dimensions, \* GridPointIterator.grid_dimensions
    yielded,      \* the points the iterator has yielded so far
    ptOp,         \* the running GridPoint call and its arguments
    ptRet,        \* what add_checked or traverse_to returned
    ptPc,         \* position of the running GridPoint call
    nt_op,        \* the running number_theory call and its arguments
    nt_ret,       \* what the number_theory call returned
    bez_a,        \* extended_euclidean_algoritm: a
    bez_b,        \* extended_euclidean_algoritm: b
    crt_acc,      \* chinese_remainder_many_with_modulus: the fold's accumulator
    crt_iter,     \* chinese_remainder_many_with_modulus: the pairs not yet folded
    nt_pc,        \* position of the running number_theory call
    nodes,        \* DisjointUsizeSet.nodes
    classes,      \* the partition the unions made so far produce
    ds_op,        \* the last DisjointUsizeSet operation and its arguments
    ds_ret,       \* what the last DisjointUsizeSet operation returned
    plain_costs,  \* the key-to-cost map the first engine of a comparison returned
    isect,        \* the last Interval::intersection or Interval::intersects call and what it returned
    gcd_frame,    \* the number_theory::gcd call in progress: its arguments, the arguments of the innermost recursive call and the recursion depth
    dseq          \* the DifferenceSequence under test: the sequence it was derived from, its state vector, the items yielded and the state before the last call

searchVars == <<graph, start, finish, to_search, results, pc, found, poppedKeys, path, pick>>
intervalVars == <<intervals, points, lastOp>>
parseVars == <<parser, input, s, many, out, fin, ppc>>
gridVars == <<grid, gridOp, gridRet, gridOld>>
pointVars == <<next, traverse_by, grid_dimensions, yielded, ptOp, ptRet, ptPc>>
numberVars == <<nt_op, nt_ret, bez_a, bez_b, crt_acc, crt_iter, nt_pc>>
setVars == <<nodes, classes, ds_op, ds_ret>>
compareVars == <<plain_costs>>
isectVars == <<isect>>
gcdVars == <<gcd_frame>>
diffVars == <<dseq>>
utilVars == <<gridVars, pointVars, numberVars, setVars, compareVars, isectVars, gcdVars, diffVars>>
vars == <<searchVars, intervalVars, parseVars, utilVars>>

----------------------------------------------------------------------------
(* Bounds *)

NumKeys == 3
MaxCost == 2

Keys == 1..NumKeys
Costs == 0..MaxCost

----------------------------------------------------------------------------
(* Option<T> is the set of at most one element: {} is None, {x} is Some(x). *)

NoneOpt == {}
Some(x) == {x}
Unwrap(o) == CHOOSE x \in o : TRUE

\* The value of type ()
UnitV == [unit |-> TRUE]

----------------------------------------------------------------------------
(* impl WeightedGraph for HashMap<K, HashMap<K, C>> *)

\* The inner maps of key a: any set of other keys, each with a cost.
InnerMaps(a) == UNION { [D -> Costs] : D \in SUBSET (Keys \ {a}) }

\* All graphs over Keys (no self edges).
Graphs == { g \in [Keys -> UNION { InnerMaps(a) : a \in Keys }] :
              \A a \in Keys : a \notin DOMAIN g[a] }

\* cost(a, b): Some(self.get(a)?.get(b)?.clone())
cost(g, a, b) ==
    IF a \in DOMAIN g /\ b \in DOMAIN g[a] THEN Some(g[a][b]) ELSE NoneOpt

\* adjacent(k): the keys of self.get(k)
adjacent(g, k) == IF k \in DOMAIN g THEN DOMAIN g[k] ELSE {}

\* cost_to_weight of the blanket impl for WeightedGraph: the identity
cost_to_weight(k, c) == c

\* A frontier entry ReverseWeightedKey { key: (key, from, cost), weight }
Entry(k, from, c) == [key |-> k, from |-> from, cost |-> c, weight |-> cost_to_weight(k, c)]

\* BinaryHeap::pop under ReverseWeightedKey::cmp: any entry of least weight
IsHeapTop(e, heap) ==
    /\ BagIn(e, heap)
    /\ \A o \in BagToSet(heap) : e.weight <= o.weight

\* The entries pushed when key k is expanded at accumulated cost c
Expand(g, k, c) ==
    SetToBag({ Entry(b, Some(k), c + Unwrap(cost(g, k, b))) :
                 b \in { x \in adjacent(g, k) : cost(g, k, x) # NoneOpt } })

----------------------------------------------------------------------------
(* ShortestPathPrecedentMap *)

\* maybe_add_paths: nothing is recorded when from is None
maybe_add_paths(res, from, to, c) ==
    IF from = NoneOpt THEN res
    ELSE IF to \in DOMAIN res
         THEN IF res[to].cost = c
              THEN [res EXCEPT ![to].precedents = @ \cup from]
              ELSE res
         ELSE [k \in DOMAIN res \cup {to} |->
                 IF k = to THEN [cost |-> c, precedents |-> from] ELSE res[k]]

\* contains
contains(res, k) == k \in DOMAIN res

\* shortest_cost
shortest_cost(res, k) == IF k \in DOMAIN res THEN Some(res[k].cost) ELSE NoneOpt

\* into_shortest_costs
into_shortest_costs(res) == [k \in DOMAIN res |-> res[k].cost]

EmptyMap == [k \in {} |-> 0]

----------------------------------------------------------------------------
(* shortest_paths_to_many and the queries built on it *)

\* Longest path vector the model follows shortest_path to.
MaxPath == 5

IntervalIdle == intervals = {} /\ points = {} /\ lastOp = "none"
GridIdle ==
    /\ grid = [st |-> "none"] /\ gridOp = [op |-> "none"]
    /\ gridRet = [st |-> "none"] /\ gridOld = [st |-> "none"]
PointIdle ==
    /\ next = {} /\ traverse_by = [st |-> "none"] /\ grid_dimensions = [st |-> "none"]
    /\ yielded = <<>> /\ ptOp = [op |-> "none"] /\ ptRet = [st |-> "none"]
    /\ ptPc = "idle"
NumberIdle ==
    /\ nt_op = [op |-> "none"] /\ nt_ret = [st |-> "none"] /\ bez_a = [st |-> "none"]
    /\ bez_b = [st |-> "none"] /\ crt_acc = {} /\ crt_iter = <<>> /\ nt_pc = "idle"
SetIdle ==
    /\ nodes = <<>> /\ classes = {} /\ ds_op = [op |-> "none"] /\ ds_ret = [st |-> "none"]
CompareIdle == plain_costs = [st |-> "none"]
IsectIdle == isect = [op |-> "none"]
GcdIdle == gcd_frame = [st |-> "none"]
DiffIdle == dseq = [st |-> "none"]
UtilIdle == GridIdle /\ PointIdle /\ NumberIdle /\ SetIdle /\ CompareIdle /\ IsectIdle /\ GcdIdle /\ DiffIdle
ParseIdle ==
    /\ parser = "idle" /\ input = <<>> /\ s = <<>>
    /\ many = <<>> /\ out = "none" /\ fin = "none" /\ ppc = "idle"

\* shortest_paths_to_many(start, early_finish, zero_distance), zero_distance = 0:
\* the frontier holds (start, None, zero_distance) and results is empty.
InitDijkstra ==
    /\ graph \in Graphs
    /\ start \in Keys
    /\ finish \in {{}} \cup { {k} : k \in Keys }
    /\ to_search = SetToBag({ Entry(start, NoneOpt, 0) })
    /\ results = EmptyMap
    /\ pc = "search"
    /\ found = NoneOpt
    /\ poppedKeys = {}
    /\ path = <<>>
    /\ pick = EmptyMap
    /\ IntervalIdle
    /\ ParseIdle
    /\ UtilIdle

\* early_finish(&key, &cost, &results): a predicate on the key
early_finish(k) == k \in finish

\* One iteration of the while-let loop of shortest_paths_to_many: pop, expand the
\* key when results does not contain it, record, then test early_finish.
Pop ==
    /\ pc = "search"
    /\ \E e \in BagToSet(to_search) :
         /\ IsHeapTop(e, to_search)
         /\ LET popped == to_search (-) SetToBag({e})
                pushed == IF ~contains(results, e.key)
                          THEN Expand(graph, e.key, e.cost)
                          ELSE EmptyBag
            IN  /\ to_search' = popped (+) pushed
                /\ results' = maybe_add_paths(results, e.from, e.key, e.cost)
                /\ poppedKeys' = poppedKeys \cup {e.key}
                /\ IF early_finish(e.key)
                   THEN pc' = "returned" /\ found' = Some(e.key)
                   ELSE pc' = "search" /\ found' = found
    /\ UNCHANGED <<graph, start, finish, path, pick, intervalVars, parseVars, utilVars>>

\* to_search.pop() is None: the loop ends and (results, None) is returned.
Drain ==
    /\ pc = "search"
    /\ to_search = EmptyBag
    /\ pc' = "returned"
    /\ found' = NoneOpt
    /\ UNCHANGED <<graph, start, finish, to_search, results, poppedKeys, path, pick,
                   intervalVars, parseVars, utilVars>>

\* shortest_distance_to_all: the search with the predicate |_, _, _| false,
\* then into_shortest_costs.
shortest_distance_to_all == into_shortest_costs(results)

\* shortest_distance_with_condition:
\* Some((key.clone()?, precedent_map.shortest_cost(&(key?))?.clone()))
shortest_distance_with_condition ==
    IF found = NoneOpt THEN NoneOpt
    ELSE IF shortest_cost(results, Unwrap(found)) = NoneOpt THEN NoneOpt
    ELSE Some(<<Unwrap(found), Unwrap(shortest_cost(results, Unwrap(found)))>>)

\* shortest_path_with_condition, search returned no key: the call returns None.
PathNone ==
    /\ pc = "returned"
    /\ found = NoneOpt
    /\ pc' = "done"
    /\ UNCHANGED <<graph, start, finish, to_search, results, found, poppedKeys, path, pick,
                   intervalVars, parseVars, utilVars>>

\* shortest_path(&key): path = vec![to], current = to
PathStart ==
    /\ pc = "returned"
    /\ found # NoneOpt
    /\ path' = <<Unwrap(found)>>
    /\ pc' = "path"
    /\ UNCHANGED <<graph, start, finish, to_search, results, found, poppedKeys, pick,
                   intervalVars, parseVars, utilVars>>

\* One iteration of the while-let loop of shortest_path: prev is the element that
\* precedents.iter().next() yields for current. The HashSet is not modified
\* during the walk, so that element is the same every time current is met.
PathStep ==
    /\ pc = "path"
    /\ Len(path) < MaxPath
    /\ LET current == path[Len(path)]
       IN  /\ current \in DOMAIN results
           /\ \E prev \in results[current].precedents :
                /\ current \in DOMAIN pick => prev = pick[current]
                /\ pick' = [k \in DOMAIN pick \cup {current} |->
                              IF k = current THEN prev ELSE pick[k]]
                /\ path' = Append(path, prev)
    /\ UNCHANGED <<graph, start, finish, to_search, results, pc, found, poppedKeys,
                   intervalVars, parseVars, utilVars>>

Reverse(sq) == [i \in 1..Len(sq) |-> sq[Len(sq) + 1 - i]]

\* current has no entry: the loop ends and the reversed path is returned.
PathReturn ==
    /\ pc = "path"
    /\ path[Len(path)] \notin DOMAIN results
    /\ path' = Reverse(path)
    /\ pc' = "done"
    /\ UNCHANGED <<graph, start, finish, to_search, results, found, poppedKeys, pick,
                   intervalVars, parseVars, utilVars>>

NextDijkstra == Pop \/ Drain \/ PathNone \/ PathStart \/ PathStep \/ PathReturn

SpecDijkstra == InitDijkstra /\ [][NextDijkstra]_vars

----------------------------------------------------------------------------
(* Reference definitions: what a shortest distance and a shortest path are. *)

RECURSIVE WalkCosts(_, _, _, _)
\* The total costs of the walks from a to b of at most n edges.
WalkCosts(g, a, b, n) ==
    (IF a = b THEN {0} ELSE {})
    \cup (IF n = 0 THEN {}
          ELSE UNION { { g[a][x] + c : c \in WalkCosts(g, x, b, n - 1) } :
                         x \in DOMAIN g[a] })

Min(S) == CHOOSE m \in S : \A x \in S : m <= x

\* With costs >= 0 a cheapest walk needs no more edges than there are other keys.
MinDist(g, a, b) ==
    LET cs == WalkCosts(g, a, b, Cardinality(DOMAIN g) - 1)
    IN  IF cs = {} THEN NoneOpt ELSE Some(Min(cs))

Reachable(g, a) == { b \in DOMAIN g : MinDist(g, a, b) # NoneOpt }

PositiveCosts(g) == \A a \in DOMAIN g : \A b \in DOMAIN g[a] : g[a][b] > 0

IsEdge(g, a, b) == cost(g, a, b) # NoneOpt

NoRepeat(sq) == \A i, j \in 1..Len(sq) : sq[i] = sq[j] => i = j

----------------------------------------------------------------------------
(* Claims on shortest_paths_to_many *)

\* C1: after shortest_distance_to_all(start, 0) on a graph with costs >= 0 the
\* returned map has exactly the keys reachable from start (start included, at
\* cost 0), each mapped to its minimum path cost.
C1_DistanceToAllIsExact ==
    (pc # "search" /\ finish = {}) =>
        /\ DOMAIN shortest_distance_to_all = Reachable(graph, start)
        /\ \A k \in DOMAIN shortest_distance_to_all :
             shortest_distance_to_all[k] = Unwrap(MinDist(graph, start, k))

\* C2: on a graph with positive costs, once the search stopped at a key k,
\* shortest_path_with_condition returns after finitely many steps a path from
\* start to k along edges. The walk of shortest_path is deterministic, so it
\* returns only if it never meets a key twice.
C2_PathReturnsValidPath ==
    (PositiveCosts(graph) /\ found # NoneOpt) =>
        /\ pc = "path" => NoRepeat(path)
        /\ pc = "done" =>
             /\ path[1] = start
             /\ path[Len(path)] = Unwrap(found)
             /\ \A i \in 1..(Len(path) - 1) : IsEdge(graph, path[i], path[i + 1])

\* C4: shortest_distance_with_condition returns Some((k, c)) exactly when a popped
\* key satisfied early_finish, k being the first such key (start included) and c
\* its shortest cost; it returns None exactly when the frontier was drained
\* with the predicate never true.
C4_DistanceWithCondition ==
    pc # "search" =>
        /\ (shortest_distance_with_condition # NoneOpt) <=> (poppedKeys \cap finish # {})
        /\ found # NoneOpt =>
             /\ poppedKeys \cap finish = found
             /\ shortest_distance_with_condition =
                  Some(<<Unwrap(found), Unwrap(MinDist(graph, start, Unwrap(found)))>>)
        /\ found = NoneOpt =>
             /\ shortest_distance_with_condition = NoneOpt
             /\ to_search = EmptyBag
             /\ poppedKeys \cap finish = {}

----------------------------------------------------------------------------
(* ShortestPathPrecedentMapWithCount and shortest_paths_to_many_with_count *)

RECURSIVE SumOver(_, _)
\* counts.values().sum() over the keys D of the map f
SumOver(f, D) ==
    IF D = {} THEN 0
    ELSE LET x == CHOOSE y \in D : TRUE
         IN  f[x] + SumOver(f, D \ {x})

\* shortest_route_count: Some(self.0.get(to)?.1.values().sum())
shortest_route_count(res, to) ==
    IF to \in DOMAIN res
    THEN Some(SumOver(res[to].counts, DOMAIN res[to].counts))
    ELSE NoneOpt

\* ShortestPathPrecedentMapWithCount::maybe_add_paths: the from map is keyed by
\* Option<Key>, so the start key is recorded under None.
maybe_add_paths_with_count(res, from, to, c, count) ==
    IF to \in DOMAIN res
    THEN IF res[to].cost = c
         THEN [res EXCEPT ![to].counts =
                 [f \in DOMAIN @ \cup {from} |->
                    IF f = from
                    THEN (IF from \in DOMAIN @ THEN @[from] + count ELSE count)
                    ELSE @[f]]]
         ELSE res
    ELSE [k \in DOMAIN res \cup {to} |->
            IF k = to
            THEN [cost |-> c, counts |-> [f \in {from} |-> count]]
            ELSE res[k]]

\* The graph of two diamonds in a row: 1 -> {2, 3} -> 4 -> {5, 6} -> 7, all costs 1.
DiamondOfDiamonds ==
    [a \in 1..7 |->
       CASE a = 1 -> [b \in {2, 3} |-> 1]
         [] a \in {2, 3} -> [b \in {4} |-> 1]
         [] a = 4 -> [b \in {5, 6} |-> 1]
         [] a \in {5, 6} -> [b \in {7} |-> 1]
         [] OTHER -> [b \in {} |-> 1]]

\* shortest_path_count(start, end, zero_distance), zero_distance = 0; finish
\* holds the end key.
InitCount ==
    /\ graph \in Graphs \cup {DiamondOfDiamonds}
    /\ start \in DOMAIN graph
    /\ finish \in { {k} : k \in DOMAIN graph }
    /\ to_search = SetToBag({ Entry(start, NoneOpt, 0) })
    /\ results = EmptyMap
    /\ pc = "search"
    /\ found = NoneOpt
    /\ poppedKeys = {}
    /\ path = <<>>
    /\ pick = EmptyMap
    /\ IntervalIdle
    /\ ParseIdle
    /\ UtilIdle

\* The predicate shortest_path_count passes as early_finish:
\* key == &end && results.shortest_cost(&key).map(|c| c < cost).unwrap_or(false)
count_early_finish(k, c, res) ==
    /\ k \in finish
    /\ shortest_cost(res, k) # NoneOpt
    /\ Unwrap(shortest_cost(res, k)) < c

\* A route count that forgets the routes into the predecessor.
route_count_single(res, from) == 1

\* route_count: from.and_then(|from| results.shortest_route_count(&from)).unwrap_or(1)
route_count(res, from) ==
    IF from = NoneOpt THEN 1
    ELSE IF shortest_route_count(res, Unwrap(from)) = NoneOpt THEN 1
    ELSE Unwrap(shortest_route_count(res, Unwrap(from)))

\* One iteration of the while-let loop of shortest_paths_to_many_with_count.
PopCount ==
    /\ pc = "search"
    /\ \E e \in BagToSet(to_search) :
         /\ IsHeapTop(e, to_search)
         /\ LET popped == to_search (-) SetToBag({e})
                pushed == IF ~contains(results, e.key)
                          THEN Expand(graph, e.key, e.cost)
                          ELSE EmptyBag
                recorded == maybe_add_paths_with_count(results, e.from, e.key, e.cost,
                                                       route_count(results, e.from))
            IN  /\ to_search' = popped (+) pushed
                /\ results' = recorded
                /\ poppedKeys' = poppedKeys \cup {e.key}
                /\ IF count_early_finish(e.key, e.cost, recorded)
                   THEN pc' = "returned" /\ found' = Some(e.key)
                   ELSE pc' = "search" /\ found' = found
    /\ UNCHANGED <<graph, start, finish, path, pick, intervalVars, parseVars, utilVars>>

\* to_search.pop() is None: (results, None) is returned.
DrainCount ==
    /\ pc = "search"
    /\ to_search = EmptyBag
    /\ pc' = "returned"
    /\ found' = NoneOpt
    /\ UNCHANGED <<graph, start, finish, to_search, results, poppedKeys, path, pick,
                   intervalVars, parseVars, utilVars>>

\* shortest_path_count: .0.shortest_route_count(&end) of what the search returned
shortest_path_count == shortest_route_count(results, Unwrap(finish))

NextCount == PopCount \/ DrainCount

SpecCount == InitCount /\ [][NextCount]_vars

RECURSIVE CountWalks(_, _, _, _)
\* The number of walks from a to b whose costs sum to exactly budget. With
\* costs > 0 the walks of minimum cost are the minimum-cost paths.
CountWalks(g, a, b, budget) ==
    (IF a = b /\ budget = 0 THEN 1 ELSE 0)
    + SumOver([x \in { y \in DOMAIN g[a] : g[a][y] <= budget } |->
                 CountWalks(g, x, b, budget - g[a][x])],
              { y \in DOMAIN g[a] : g[a][y] <= budget })

\* C3: on a graph with costs > 0, shortest_path_count(start, end, 0) is Some(n), n
\* the number of distinct minimum-cost paths from start to end, and None when
\* end is unreachable.
C3_PathCountIsExact ==
    (pc = "returned" /\ PositiveCosts(graph)) =>
        LET end == Unwrap(finish)
            d == MinDist(graph, start, end)
        IN  IF d = NoneOpt
            THEN shortest_path_count = NoneOpt
            ELSE shortest_path_count = Some(CountWalks(graph, start, end, Unwrap(d)))

\* C3 witness: the diamond of diamonds searched from 1 to 7 returned Some(4).
C3_Witness ==
    /\ pc = "returned"
    /\ graph = DiamondOfDiamonds
    /\ start = 1
    /\ finish = {7}
    /\ shortest_path_count = Some(4)

----------------------------------------------------------------------------
(* Interval and DisjointIntervalUnion (src/src/interval.rs) *)

\* Largest value of an interval bound.
MaxVal == 3

Values == 0..MaxVal

\* IntervalBound::Inclusive(t) / IntervalBound::Exclusive(t)
Inclusive(t) == [incl |-> TRUE, v |-> t]
Exclusive(t) == [incl |-> FALSE, v |-> t]
IntervalBounds == { Inclusive(t) : t \in Values } \cup { Exclusive(t) : t \in Values }

inclusive(b) == b.incl
inner(b) == b.v
invert(b) == [b EXCEPT !.incl = ~@]

bounds_below(b, t) == IF b.incl THEN b.v <= t ELSE b.v < t
bounds_above(b, t) == IF b.incl THEN b.v >= t ELSE b.v > t

\* Ordering of T::partial_cmp
Cmp(x, y) == IF x < y THEN "Less" ELSE IF x = y THEN "Equal" ELSE "Greater"

compare_internal(a, b) == Cmp(inner(a), inner(b))

compare_as_lower_bound(a, b) ==
    IF compare_internal(a, b) = "Equal"
    THEN IF a.incl /\ ~b.incl THEN "Less"
         ELSE IF ~a.incl /\ b.incl THEN "Greater"
         ELSE "Equal"
    ELSE compare_internal(a, b)

compare_as_upper_bound(a, b) ==
    IF compare_internal(a, b) = "Equal"
    THEN IF a.incl /\ ~b.incl THEN "Greater"
         ELSE IF ~a.incl /\ b.incl THEN "Less"
         ELSE "Equal"
    ELSE compare_internal(a, b)

\* Interval::new
NewInterval(b, e) == [begin |-> b, end |-> e]

\* Interval::contains
interval_contains(i, t) == bounds_below(i.begin, t) /\ bounds_above(i.end, t)

\* Interval::non_empty
non_empty(i) ==
    CASE compare_internal(i.begin, i.end) = "Less" -> TRUE
      [] compare_internal(i.begin, i.end) = "Equal" -> inclusive(i.begin) /\ inclusive(i.end)
      [] OTHER -> FALSE

\* Interval::intersection: the lower bounds are compared as lower bounds, the
\* upper bounds by their inner values only.
intersection(a, b) ==
    LET begin == IF compare_as_lower_bound(a.begin, b.begin) = "Less" THEN b.begin ELSE a.begin
        end == IF compare_internal(a.end, b.end) = "Greater" THEN b.end ELSE a.end
    IN  CASE compare_internal(begin, end) = "Less" -> Some(NewInterval(begin, end))
          [] compare_internal(begin, end) = "Greater" -> NoneOpt
          [] OTHER -> IF inclusive(begin) /\ inclusive(end)
                      THEN Some(NewInterval(begin, end))
                      ELSE NoneOpt

\* Interval::intersects
intersects(a, b) == intersection(a, b) # NoneOpt

\* Interval::partial_cmp, the order of the BTreeSet
interval_cmp(a, b) ==
    IF compare_as_lower_bound(a.begin, b.begin) = "Equal"
    THEN compare_as_upper_bound(a.end, b.end)
    ELSE compare_as_lower_bound(a.begin, b.begin)

RECURSIVE InOrder(_)
\* BTreeSet::iter: the intervals of S in ascending order
InOrder(S) ==
    IF S = {} THEN <<>>
    ELSE LET m == CHOOSE x \in S : \A y \in S : interval_cmp(x, y) # "Greater"
         IN  <<m>> \o InOrder(S \ {m})

RECURSIVE FoldBegin(_, _)
\* The fold over the lower bounds in union_interval_assign
FoldBegin(sq, bound) ==
    IF sq = <<>> THEN bound
    ELSE FoldBegin(Tail(sq),
                   IF compare_as_lower_bound(Head(sq).begin, bound) = "Less"
                   THEN Head(sq).begin ELSE bound)

RECURSIVE FoldEnd(_, _)
\* The fold over the upper bounds in union_interval_assign
FoldEnd(sq, bound) ==
    IF sq = <<>> THEN bound
    ELSE FoldEnd(Tail(sq),
                 IF compare_as_upper_bound(Head(sq).end, bound) = "Greater"
                 THEN Head(sq).end ELSE bound)

\* DisjointIntervalUnion::union_interval_assign
union_interval_assign(S, interval) ==
    LET hit == InOrder({ i \in S : intersects(i, interval) })
        begin == FoldBegin(hit, interval.begin)
        end == FoldEnd(hit, interval.end)
    IN  { i \in S : ~intersects(i, interval) } \cup { NewInterval(begin, end) }

RECURSIVE FromIntervals(_, _)
\* DisjointIntervalUnion::from: every interval of sq unioned into acc in turn
FromIntervals(sq, acc) ==
    IF sq = <<>> THEN acc
    ELSE FromIntervals(Tail(sq), union_interval_assign(acc, Head(sq)))

\* A difference that keeps the bounds of b as they are instead of inverting them.
difference_without_invert(a, b) ==
    IF ~intersects(a, b) THEN {a}
    ELSE FromIntervals(
           SelectSeq(<<NewInterval(a.begin, b.begin), NewInterval(b.end, a.end)>>,
                     non_empty),
           {})

\* Interval::difference
difference(a, b) ==
    IF ~intersects(a, b) THEN {a}
    ELSE FromIntervals(
           SelectSeq(<<NewInterval(a.begin, invert(b.begin)),
                       NewInterval(invert(b.end), a.end)>>,
                     non_empty),
           {})

\* DisjointIntervalUnion::subtract_interval_assign
subtract_interval_assign(S, interval) == UNION { difference(i, interval) : i \in S }

\* The intervals a caller passes: those Interval::non_empty accepts.
InputIntervals == { i \in [begin : IntervalBounds, end : IntervalBounds] : non_empty(i) }

\* The points of the domain a mathematical interval holds.
PointsOf(i) ==
    { x \in Values : /\ (IF i.begin.incl THEN i.begin.v <= x ELSE i.begin.v < x)
                     /\ (IF i.end.incl THEN x <= i.end.v ELSE x < i.end.v) }

SearchIdle ==
    /\ graph = EmptyMap /\ start = 0 /\ finish = {} /\ to_search = EmptyBag
    /\ results = EmptyMap /\ pc = "idle" /\ found = NoneOpt /\ poppedKeys = {}
    /\ path = <<>> /\ pick = EmptyMap

\* DisjointIntervalUnion::empty()
InitInterval ==
    /\ intervals = {}
    /\ points = {}
    /\ lastOp = "none"
    /\ SearchIdle
    /\ ParseIdle
    /\ UtilIdle

UnionIntervalAssign ==
    \E i \in InputIntervals :
        /\ intervals' = union_interval_assign(intervals, i)
        /\ points' = points \cup PointsOf(i)
        /\ lastOp' = "union"
        /\ UNCHANGED <<searchVars, parseVars, utilVars>>

SubtractIntervalAssign ==
    \E i \in InputIntervals :
        /\ intervals' = subtract_interval_assign(intervals, i)
        /\ points' = points \ PointsOf(i)
        /\ lastOp' = "subtract"
        /\ UNCHANGED <<searchVars, parseVars, utilVars>>

NextInterval == UnionIntervalAssign \/ SubtractIntervalAssign

SpecInterval == InitInterval /\ [][NextInterval]_vars

\* Two intervals share a point of the domain.
SharePoint(a, b) == PointsOf(a) \cap PointsOf(b) # {}

\* a ends where b begins and exactly one of the two bounds is inclusive, as in
\* [0,5) next to [5,10]: the union of a and b is one interval.
Touch(a, b) == a.end.v = b.begin.v /\ a.end.incl # b.begin.incl

\* C5: the stored intervals never share a point and never touch.
C5_DisjointAndNotTouching ==
    \A a, b \in intervals :
        a # b => ~SharePoint(a, b) /\ ~Touch(a, b)

\* A point is contained in some stored interval.
union_contains(x) == \E i \in intervals : interval_contains(i, x)

\* C6: a point is contained in some stored interval exactly when it is in the
\* point set the same unions and subtractions produce.
C6_ContainsAgreesWithPointSet ==
    \A x \in Values : union_contains(x) <=> x \in points

\* C6 witness: after a subtraction split a stored interval, two intervals are
\* stored, a point between them is gone and points on both sides remain.
C6_Witness ==
    /\ lastOp = "subtract"
    /\ Cardinality(intervals) = 2
    /\ \E x, y, z \in Values :
         /\ x < y /\ y < z
         /\ x \in points /\ y \notin points /\ z \in points
         /\ union_contains(x) /\ ~union_contains(y) /\ union_contains(z)

----------------------------------------------------------------------------
(* Grid (src/src/grid/grid.rs, grid_dimension.rs, grid_point.rs, error.rs) *)

\* GridPoint::new
GridPoint(row, col) == [row |-> row, col |-> col]

\* GridDimensions::new
GridDimensions(min_row, max_row, min_col, max_col) ==
    [min_row |-> min_row, max_row |-> max_row, min_col |-> min_col, max_col |-> max_col]

\* GridDimensions::contains
dimensions_contains(d, point) ==
    /\ d.min_row <= point.row
    /\ point.row < d.max_row
    /\ d.min_col <= point.col
    /\ point.col < d.max_col

\* GridDimensions::rows and GridDimensions::cols
dimensions_rows(d) == d.max_row - d.min_row
dimensions_cols(d) == d.max_col - d.min_col

\* struct Grid { dimensions, grid }
Grid(dimensions, cells) == [dimensions |-> dimensions, grid |-> cells]

\* Grid::from
Grid_from(v, rows, cols) ==
    IF Len(v) = rows * cols
    THEN Some(Grid(GridDimensions(0, rows, 0, cols), v))
    ELSE NoneOpt

RECURSIVE of_list_of_lists_loop(_, _, _, _)
\* The loop of Grid::of_list_of_lists from row row_idx on: the vector it
\* fills, or None as soon as a row leaves it with a length other than
\* cols * (row_idx + 1).
of_list_of_lists_loop(v, row_idx, cols, cells) ==
    IF row_idx = Len(v) THEN Some(cells)
    ELSE IF Len(cells \o v[row_idx + 1]) # cols * (row_idx + 1) THEN NoneOpt
    ELSE of_list_of_lists_loop(v, row_idx + 1, cols, cells \o v[row_idx + 1])

\* Grid::of_list_of_lists
of_list_of_lists(v, rows, cols) ==
    IF of_list_of_lists_loop(v, 0, cols, <<>>) = NoneOpt THEN NoneOpt
    ELSE Some(Grid(GridDimensions(0, rows, 0, cols),
                   Unwrap(of_list_of_lists_loop(v, 0, cols, <<>>))))

\* Grid::of_vec_of_vecs, for a vector with a first row (v[0] exists)
of_vec_of_vecs(v) == of_list_of_lists(v, Len(v), Len(v[1]))

\* point_as_arr_idx
point_as_arr_idx(dimension, point) == point.row * dimensions_cols(dimension) + point.col

\* IndexOutOfBoundsError::new
IndexOutOfBoundsError(dimensions, attempted) ==
    [dimensions |-> dimensions, attempted |-> attempted]

\* Result::Ok and Result::Err of an IndexResult
IndexOk(v) == [ok |-> TRUE, value |-> v]
IndexErr(e) == [ok |-> FALSE, error |-> e]

\* Grid::get: the checked read of Vec::get behind the dimensions test
Grid_get(g, point) ==
    IF ~dimensions_contains(g.dimensions, point)
    THEN IndexErr(IndexOutOfBoundsError(g.dimensions, point))
    ELSE IF point_as_arr_idx(g.dimensions, point) < Len(g.grid)
    THEN IndexOk(g.grid[point_as_arr_idx(g.dimensions, point) + 1])
    ELSE IndexErr(IndexOutOfBoundsError(g.dimensions, point))

\* Grid::get_mut: the same test, the reference being to the same cell
Grid_get_mut(g, point) == Grid_get(g, point)

\* Grid::set: the value it returns and the grid it leaves
Grid_set(g, point, value) ==
    IF ~dimensions_contains(g.dimensions, point)
    THEN [ret |-> IndexErr(IndexOutOfBoundsError(g.dimensions, point)), grid |-> g]
    ELSE IF point_as_arr_idx(g.dimensions, point) < Len(g.grid)
    THEN [ret |-> IndexOk(UnitV),
          grid |-> Grid(g.dimensions,
                        [g.grid EXCEPT ![point_as_arr_idx(g.dimensions, point) + 1] = value])]
    ELSE [ret |-> IndexErr(IndexOutOfBoundsError(g.dimensions, point)), grid |-> g]

----------------------------------------------------------------------------
(* Parser combinators (src/src/parse.rs) *)

\* Longest input string.
MaxLen == 3
\* Most items the model lets the loop of Many::parse collect.
MaxMany == 4

\* Longest input of a line, many_lines or grid call.
MaxLineLen == 6

Alphabet == {"a", "b", "1"}
Alphabetic == {"a", "b"}
Numeric == {"1"}
\* The characters of the multi-line inputs
LineAlphabet == {"a", "b", "\n"}
\* Every character an input can hold
AllChars == Alphabet \cup LineAlphabet

\* A &str is the sequence of its characters.
Inputs == UNION { [1..n -> Alphabet] : n \in 0..MaxLen }
LineInputs == UNION { [1..n -> LineAlphabet] : n \in 0..MaxLineLen }

\* ParseError
UnexpectedChar(c) == [kind |-> "UnexpectedChar", c |-> c]
UnmatchedTag(tg) == [kind |-> "UnmatchedTag", tag |-> tg]
Generic(msg) == [kind |-> "Generic", msg |-> msg]
ParseIntError(txt) == [kind |-> "ParseIntError", text |-> txt]
RemainingUnparsed == [kind |-> "RemainingUnparsed"]
XorBothTrue == [kind |-> "XorBothTrue"]
EndOfString == [kind |-> "EndOfString"]

\* ParseState::Ok { result, rest } and ParseState::Err { error, rest }
StateOk(result, rest) == [st |-> "Ok", result |-> result, rest |-> rest]
StateErr(error, rest) == [st |-> "Err", error |-> error, rest |-> rest]
\* A parse call that never returns.
Diverge == [st |-> "Diverge"]

IsOk(r) == r.st = "Ok"
IsErr(r) == r.st = "Err"

\* Output values, one record shape per Rust type
CharV(c) == [char |-> c]
StrV(sq) == [str |-> sq]
StringV(sq) == [string |-> sq]
NumV(n) == [num |-> n]
OptionV(o) == [option |-> o]
ItemsV(sq) == [items |-> sq]
PairV(a, b) == [fst |-> a, snd |-> b]
VecV(sq) == [vec |-> sq]

\* The parsers
Pure == [kind |-> "pure"]
Fail(msg) == [kind |-> "fail", msg |-> msg]
Chars(pred) == [kind |-> "chars", pred |-> pred]
Char(c) == [kind |-> "char", c |-> c]
CharAny == [kind |-> "char_any"]
Tag(tg) == [kind |-> "tag", tag |-> tg]
\* Any (the name Any is taken by a standard module)
AnyParser == [kind |-> "any"]
Drop == [kind |-> "drop"]
Number(seps) == [kind |-> "number", seps |-> seps]
Or(p, q) == [kind |-> "or", p |-> p, q |-> q]
Xor(p, q) == [kind |-> "xor", p |-> p, q |-> q]
And(p, q) == [kind |-> "and", p |-> p, q |-> q]
AndThen(p, q) == [kind |-> "and_then", p |-> p, q |-> q]
Skip(p, q) == [kind |-> "skip", p |-> p, q |-> q]
IgnoreAndThen(p, q) == [kind |-> "ignore_and_then", p |-> p, q |-> q]
Maybe(p) == [kind |-> "maybe", p |-> p]
Many(p) == [kind |-> "many", p |-> p]
Repeat(count, p) == [kind |-> "repeat", count |-> count, p |-> p]
List(sep, p) == [kind |-> "list", sep |-> sep, p |-> p]
Line(terminator, p) == [kind |-> "line", terminator |-> terminator, p |-> p]
ManyLines(terminator, p) == [kind |-> "many_lines", terminator |-> terminator, p |-> p]
\* parsers_internal::Grid { seperator, terminator, p }
GridParser(seperator, terminator, p) ==
    [kind |-> "grid", seperator |-> seperator, terminator |-> terminator, p |-> p]
\* The parser Grid::parse builds for the rows after the first:
\* p.and_then(tag(seperator).and_then(p).map(|(_, v)| v).repeat(count)).map(cons, collect)
GridRow(seperator, p, count) ==
    [kind |-> "grid_row", seperator |-> seperator, p |-> p, count |-> count]

RECURSIVE TypeOf(_)
\* Parser::Output
TypeOf(p) ==
    CASE p.kind \in {"pure", "drop"} -> [base |-> "()"]
      [] p.kind = "fail" -> [base |-> "!"]
      [] p.kind \in {"chars", "char", "char_any"} -> [base |-> "char"]
      [] p.kind = "tag" -> [base |-> "&str"]
      [] p.kind = "any" -> [base |-> "String"]
      [] p.kind = "number" -> [base |-> "u32"]
      [] p.kind \in {"or", "xor", "skip"} -> TypeOf(p.p)
      [] p.kind \in {"and", "ignore_and_then"} -> TypeOf(p.q)
      [] p.kind = "and_then" -> [fst |-> TypeOf(p.p), snd |-> TypeOf(p.q)]
      [] p.kind = "maybe" -> [option |-> TypeOf(p.p)]
      [] p.kind = "many" -> [manyiter |-> TypeOf(p.p)]

\* str::strip_prefix
HasPrefix(str, tg) == Len(tg) <= Len(str) /\ SubSeq(str, 1, Len(tg)) = tg
StripPrefix(str, tg) == SubSeq(str, Len(tg) + 1, Len(str))

\* Chars::parse
chars_parse(pred, str) ==
    IF str = <<>> THEN StateErr(EndOfString, str)
    ELSE IF Head(str) \in pred THEN StateOk(CharV(Head(str)), Tail(str))
    ELSE StateErr(UnexpectedChar(Head(str)), str)

\* Tag::parse
tag_parse(tg, str) ==
    IF HasPrefix(str, tg) THEN StateOk(StrV(tg), StripPrefix(str, tg))
    ELSE StateErr(UnmatchedTag(tg), str)

\* An or that reports the first error when both states are errors.
state_or_first_error(a, b) == IF IsOk(a) THEN a ELSE IF IsOk(b) THEN b ELSE a

\* ParseState::or
ParseState_or(a, b) == IF IsOk(a) THEN a ELSE b

\* A xor that accepts when both states are Ok, as or does.
state_xor_as_or(a, b, str) == IF IsOk(a) THEN a ELSE b

\* ParseState::xor
ParseState_xor(a, b, str) ==
    IF IsOk(a)
    THEN IF IsOk(b) THEN StateErr(XorBothTrue, str) ELSE a
    ELSE b

\* ParseState::and
ParseState_and(a, b) == IF IsOk(a) THEN b ELSE a

\* An extend that pushes at the front instead of the back.
extend_at_front(m, x) == <<x>> \o m

\* ManyIter::extend
ManyIter_extend(m, x) == Append(m, x)

\* ManyIter::cons
ManyIter_cons(m, x) == <<x>> \o m

Digits == <<"0", "1", "2", "3", "4", "5", "6", "7", "8", "9">>
DigitValue(c) == (CHOOSE i \in 1..Len(Digits) : Digits[i] = c) - 1

RECURSIVE ParseInt(_, _)
\* str::parse::<u32> of a non-empty run of digits (too short here to overflow)
ParseInt(sq, acc) ==
    IF sq = <<>> THEN acc ELSE ParseInt(Tail(sq), acc * 10 + DigitValue(Head(sq)))

\* The closure Number::parse binds: keep the numeric characters and parse them.
number_bind(itemsV) ==
    LET txt == SelectSeq([i \in 1..Len(itemsV.items) |-> itemsV.items[i].char],
                         LAMBDA c : c \in Numeric)
    IN  IF txt = <<>> THEN [ok |-> FALSE, error |-> ParseIntError(txt)]
        ELSE [ok |-> TRUE, value |-> NumV(ParseInt(txt, 0))]

\* A parse call that panics.
Panic == [st |-> "Panic"]

RECURSIVE Parse(_, _)
RECURSIVE ManyParse(_, _, _)
RECURSIVE RepeatParse(_, _, _, _)

\* Repeat::parse: count applications of p, the first Err returned as it is
RepeatParse(p, count, str, acc) ==
    IF count = 0 THEN StateOk(ItemsV(acc), str)
    ELSE LET r == Parse(p, str)
         IN  CASE r.st = "Ok" ->
                    RepeatParse(p, count - 1, r.rest, ManyIter_extend(acc, r.result))
               [] r.st = "Err" -> StateErr(r.error, r.rest)
               [] OTHER -> r

\* Many::parse as a nested call. The loop runs p on s again and again; when p
\* is Ok without consuming, every later iteration is the same: no return.
ManyParse(p, str, acc) ==
    LET r == Parse(p, str)
    IN  CASE r.st = "Diverge" -> Diverge
          [] r.st = "Err" -> StateOk(ItemsV(acc), str)
          [] OTHER -> IF r.rest = str THEN Diverge
                      ELSE ManyParse(p, r.rest, ManyIter_extend(acc, r.result))

\* Parser::parse of every parser kind
Parse(p, str) ==
    CASE p.kind = "pure" -> StateOk(UnitV, str)
      [] p.kind = "fail" -> StateErr(Generic(p.msg), str)
      [] p.kind = "chars" -> chars_parse(p.pred, str)
      [] p.kind = "char" -> chars_parse({p.c}, str)
      [] p.kind = "char_any" -> chars_parse(AllChars, str)
      [] p.kind = "tag" -> tag_parse(p.tag, str)
      [] p.kind = "any" -> StateOk(StringV(str), <<>>)
      [] p.kind = "drop" -> StateOk(UnitV, <<>>)
      [] p.kind = "number" ->
           LET r == ManyParse(Chars(Numeric \cup p.seps), str, <<>>)
           IN  IF ~IsOk(r) THEN r
               ELSE IF number_bind(r.result).ok
                    THEN StateOk(number_bind(r.result).value, r.rest)
                    ELSE StateErr(number_bind(r.result).error, str)
      [] p.kind \in {"or", "xor", "and"} ->
           LET a == Parse(p.p, str)
               b == Parse(p.q, str)
           IN  IF a.st = "Diverge" \/ b.st = "Diverge" THEN Diverge
               ELSE CASE p.kind = "or" -> ParseState_or(a, b)
                      [] p.kind = "xor" -> ParseState_xor(a, b, str)
                      [] OTHER -> ParseState_and(a, b)
      [] p.kind \in {"and_then", "skip", "ignore_and_then"} ->
           LET a == Parse(p.p, str)
           IN  IF ~IsOk(a) THEN a
               ELSE LET b == Parse(p.q, a.rest)
                    IN  IF ~IsOk(b) THEN b
                        ELSE CASE p.kind = "and_then" ->
                                    StateOk(PairV(a.result, b.result), b.rest)
                               [] p.kind = "skip" -> StateOk(a.result, b.rest)
                               [] OTHER -> StateOk(b.result, b.rest)
      [] p.kind = "maybe" ->
           LET a == Parse(p.p, str)
           IN  CASE a.st = "Diverge" -> Diverge
                 [] a.st = "Ok" -> StateOk(OptionV(Some(a.result)), a.rest)
                 [] OTHER -> StateOk(OptionV(NoneOpt), str)
      [] p.kind = "many" -> ManyParse(p.p, str, <<>>)
      [] p.kind = "repeat" -> RepeatParse(p.p, p.count, str, <<>>)
      [] p.kind = "list" ->
           LET a == Parse(p.p, str)
           IN  IF ~IsOk(a) THEN a
               ELSE LET m == ManyParse(IgnoreAndThen(Tag(p.sep), p.p), a.rest, <<>>)
                    IN  IF ~IsOk(m) THEN m
                        ELSE StateOk(ItemsV(ManyIter_cons(m.result.items, a.result)), m.rest)
      [] p.kind = "line" -> Parse(Skip(p.p, Tag(p.terminator)), str)
      [] p.kind = "many_lines" -> ManyParse(Line(p.terminator, p.p), str, <<>>)
      [] p.kind = "grid_row" ->
           LET a == Parse(p.p, str)
           IN  IF ~IsOk(a) THEN a
               ELSE LET m == RepeatParse(IgnoreAndThen(Tag(p.seperator), p.p), p.count,
                                         a.rest, <<>>)
                    IN  IF ~IsOk(m) THEN m
                        ELSE StateOk(VecV(ManyIter_cons(m.result.items, a.result)), m.rest)
      [] p.kind = "grid" ->
           LET first == Parse(Skip(List(p.seperator, p.p), Tag(p.terminator)), str)
           IN  IF ~IsOk(first) THEN first
               ELSE IF Len(first.result.items) = 0 THEN Panic
               ELSE LET more == Parse(ManyLines(p.terminator,
                                                GridRow(p.seperator, p.p,
                                                        Len(first.result.items) - 1)),
                                      first.rest)
                    IN  IF ~IsOk(more) THEN more
                        ELSE LET vec_of_vecs ==
                                     <<first.result.items>> \o
                                     [i \in 1..Len(more.result.items) |->
                                         more.result.items[i].vec]
                             IN  IF of_vec_of_vecs(vec_of_vecs) = NoneOpt THEN Panic
                                 ELSE StateOk(Unwrap(of_vec_of_vecs(vec_of_vecs)), more.rest)

\* A finish that does not look at the rest of an Ok state.
finish_ignoring_rest(state) ==
    IF state.st = "Err"
    THEN [st |-> "Err", error |-> state.error, rest |-> state.rest]
    ELSE [st |-> "Ok", value |-> state.result]

\* ParseState::finish
ParseState_finish(state) ==
    CASE state.st = "Err" -> [st |-> "Err", error |-> state.error, rest |-> state.rest]
      [] state.st = "Ok" /\ state.rest = <<>> -> [st |-> "Ok", value |-> state.result]
      [] OTHER -> [st |-> "Err", error |-> RemainingUnparsed, rest |-> state.rest]

----------------------------------------------------------------------------
(* Parse calls *)

Prims ==
    { Pure, Fail("oh no!"), Chars(Alphabetic), Chars(Numeric), Char("a"), Char("b"),
      CharAny, Tag(<<>>), Tag(<<"a">>), Tag(<<"a", "b">>), AnyParser, Drop, Number({}) }

\* The parsers given to or, xor and many.
Operands ==
    Prims
    \cup { Maybe(p) : p \in { Char("a"), Tag(<<"a", "b">>), Number({}) } }
    \cup { Many(p) : p \in { Char("a"), Chars(Alphabetic), Pure } }
    \cup { AndThen(p, q) : p, q \in { Char("a"), Chars(Alphabetic) } }
    \cup { Skip(p, q) : p \in { Char("a"), Tag(<<"a">>) }, q \in { Char("b"), AnyParser } }
    \cup { IgnoreAndThen(p, q) : p \in { Char("a"), Number({}) }, q \in { Char("b"), AnyParser } }

\* The parsers of a plain parse call.
Parsers ==
    Operands
    \cup { And(p, q) : p, q \in { Chars(Alphabetic), Char("b"), Chars(Numeric) } }
    \cup { Maybe(p) : p \in Prims }

InitParse ==
    /\ parser = "idle"
    /\ input = <<>>
    /\ s = <<>>
    /\ many = <<>>
    /\ out = "none"
    /\ fin = "none"
    /\ ppc = "idle"
    /\ SearchIdle
    /\ IntervalIdle
    /\ UtilIdle

\* p.parse(str) for a parser p
CallParse ==
    /\ ppc = "idle"
    /\ \E p \in Parsers, str \in Inputs :
         /\ parser' = p
         /\ input' = str
         /\ out' = Parse(p, str)
         /\ ppc' = IF Parse(p, str).st = "Diverge" THEN "diverged" ELSE "called"
    /\ UNCHANGED <<s, many, fin, searchVars, intervalVars, utilVars>>

\* Or::parse: self.p.parse(s).or(self.q.parse(s))
CallOr ==
    /\ ppc = "idle"
    /\ \E p \in Operands, q \in Operands, str \in Inputs :
         /\ TypeOf(p) = TypeOf(q)
         /\ parser' = Or(p, q)
         /\ input' = str
         /\ out' = Parse(Or(p, q), str)
         /\ ppc' = IF Parse(Or(p, q), str).st = "Diverge" THEN "diverged" ELSE "called"
    /\ UNCHANGED <<s, many, fin, searchVars, intervalVars, utilVars>>

\* Xor::parse: self.p.parse(s).xor(self.q.parse(s), s)
CallXor ==
    /\ ppc = "idle"
    /\ \E p \in Operands, q \in Operands, str \in Inputs :
         /\ TypeOf(p) = TypeOf(q)
         /\ parser' = Xor(p, q)
         /\ input' = str
         /\ out' = Parse(Xor(p, q), str)
         /\ ppc' = IF Parse(Xor(p, q), str).st = "Diverge" THEN "diverged" ELSE "called"
    /\ UNCHANGED <<s, many, fin, searchVars, intervalVars, utilVars>>

\* Many::parse, entry: many = ManyIter::empty()
ManyStart ==
    /\ ppc = "idle"
    /\ \E p \in Operands, str \in Inputs :
         /\ parser' = Many(p)
         /\ input' = str
         /\ s' = str
         /\ many' = <<>>
         /\ ppc' = "many"
    /\ UNCHANGED <<out, fin, searchVars, intervalVars, utilVars>>

\* Many::parse, one iteration: self.p.clone().parse(s) is Ok { result, rest }
ManyIterate ==
    /\ ppc = "many"
    /\ Len(many) < MaxMany
    /\ IsOk(Parse(parser.p, s))
    /\ s' = Parse(parser.p, s).rest
    /\ many' = ManyIter_extend(many, Parse(parser.p, s).result)
    /\ UNCHANGED <<parser, input, out, fin, ppc, searchVars, intervalVars, utilVars>>

\* Many::parse, loop exit: self.p.clone().parse(s) is an Err
ManyReturn ==
    /\ ppc = "many"
    /\ IsErr(Parse(parser.p, s))
    /\ out' = StateOk(ItemsV(many), s)
    /\ ppc' = "called"
    /\ UNCHANGED <<parser, input, s, many, fin, searchVars, intervalVars, utilVars>>

\* state.finish()
Finish ==
    /\ ppc = "called"
    /\ fin' = ParseState_finish(out)
    /\ ppc' = "finished"
    /\ UNCHANGED <<parser, input, s, many, out, searchVars, intervalVars, utilVars>>

\* The position a call that produced r leaves
After(r) ==
    CASE r.st = "Diverge" -> "diverged"
      [] r.st = "Panic" -> "panicked"
      [] OTHER -> "called"

\* The line and row terminators of the multi-line calls
Terminators == { <<"\n">> }
\* The column separators of the grid calls
Separators == { <<>>, <<"b">> }

\* The parsers given to line and many_lines.
LineOperands ==
    { AnyParser, Pure, Drop, Char("a"), Chars(Alphabetic), Tag(<<"a", "b">>),
      Many(Chars(Alphabetic)), Many(Char("a")), Maybe(Char("a")) }

\* The parsers given to grid: one token is one character.
GridOperands == { Chars(Alphabetic), Char("a") }

\* Line::parse: self.p.skip_tag(self.terminator).parse(s)
CallLine ==
    /\ ppc = "idle"
    /\ \E p \in LineOperands, t \in Terminators, str \in LineInputs :
         /\ parser' = Line(t, p)
         /\ input' = str
         /\ out' = Parse(Line(t, p), str)
         /\ ppc' = After(Parse(Line(t, p), str))
    /\ UNCHANGED <<s, many, fin, searchVars, intervalVars, utilVars>>

\* ManyLines::parse: self.p.line(self.terminator).many().parse(s)
CallManyLines ==
    /\ ppc = "idle"
    /\ \E p \in LineOperands, t \in Terminators, str \in LineInputs :
         /\ parser' = ManyLines(t, p)
         /\ input' = str
         /\ out' = Parse(ManyLines(t, p), str)
         /\ ppc' = After(Parse(ManyLines(t, p), str))
    /\ UNCHANGED <<s, many, fin, searchVars, intervalVars, utilVars>>

\* Grid::parse
CallGrid ==
    /\ ppc = "idle"
    /\ \E p \in GridOperands, sep \in Separators, t \in Terminators, str \in LineInputs :
         /\ parser' = GridParser(sep, t, p)
         /\ input' = str
         /\ out' = Parse(GridParser(sep, t, p), str)
         /\ ppc' = After(Parse(GridParser(sep, t, p), str))
    /\ UNCHANGED <<s, many, fin, searchVars, intervalVars, utilVars>>

NextParse ==
    \/ CallParse \/ CallOr \/ CallXor \/ ManyStart \/ ManyIterate \/ ManyReturn \/ Finish
    \/ CallLine \/ CallManyLines \/ CallGrid

SpecParse == InitParse /\ [][NextParse]_vars

----------------------------------------------------------------------------
(* Claims on the parser combinators *)

Returned == ppc \in {"called", "finished"}

\* C7: p.xor(q).parse(s) is Ok exactly when one of p.parse(s), q.parse(s) is Ok,
\* and is then that state; when both are Ok it is Err(XorBothTrue) with rest s;
\* when both are Err it is an Err.
C7_XorExactlyOne ==
    (Returned /\ parser.kind = "xor") =>
        LET a == Parse(parser.p, input)
            b == Parse(parser.q, input)
        IN  /\ IsOk(out) <=> (IsOk(a) /\ ~IsOk(b)) \/ (~IsOk(a) /\ IsOk(b))
            /\ (IsOk(a) /\ ~IsOk(b)) => out = a
            /\ (~IsOk(a) /\ IsOk(b)) => out = b
            /\ (IsOk(a) /\ IsOk(b)) => out = StateErr(XorBothTrue, input)
            /\ (~IsOk(a) /\ ~IsOk(b)) => IsErr(out)

\* C7 witness: chars(alphabetic).xor(char('b')) on "b", both Ok, gave XorBothTrue.
C7_Witness ==
    /\ ppc = "called"
    /\ parser = Xor(Chars(Alphabetic), Char("b"))
    /\ input = <<"b">>
    /\ IsOk(Parse(parser.p, input)) /\ IsOk(Parse(parser.q, input))
    /\ out = StateErr(XorBothTrue, <<"b">>)

\* C8: finish() is Ok(value) exactly for an Ok state with empty rest; an Ok
\* state with a non-empty rest gives Err((RemainingUnparsed, rest)); an Err state
\* gives Err((error, rest)) unchanged; and no parse call itself produces
\* RemainingUnparsed.
C8_FinishAndRemainingUnparsed ==
    /\ ppc = "finished" =>
         /\ (fin.st = "Ok") <=> (IsOk(out) /\ out.rest = <<>>)
         /\ fin.st = "Ok" => fin.value = out.result
         /\ (IsOk(out) /\ out.rest # <<>>) =>
              fin = [st |-> "Err", error |-> RemainingUnparsed, rest |-> out.rest]
         /\ IsErr(out) => fin = [st |-> "Err", error |-> out.error, rest |-> out.rest]
    /\ (Returned /\ IsErr(out)) => out.error # RemainingUnparsed

\* C8 witness: pure().parse("a").finish() is Err((RemainingUnparsed, "a")).
C8_Witness ==
    /\ ppc = "finished"
    /\ parser = Pure
    /\ input = <<"a">>
    /\ out = StateOk(UnitV, <<"a">>)
    /\ fin = [st |-> "Err", error |-> RemainingUnparsed, rest |-> <<"a">>]

\* C9: p.or(q).parse(s) is p.parse(s) when that is Ok, and otherwise q.parse(s)
\* on the original input s, error and rest of q included.
C9_OrBacktracks ==
    (Returned /\ parser.kind = "or") =>
        LET a == Parse(parser.p, input)
            b == Parse(parser.q, input)
        IN  IF IsOk(a) THEN out = a ELSE out = b

\* C9 witness: p fails after consuming "a", q succeeds on the whole input "ab".
C9_Witness ==
    /\ ppc = "called"
    /\ parser = Or(AndThen(Char("a"), Char("a")), AndThen(Char("a"), Chars(Alphabetic)))
    /\ input = <<"a", "b">>
    /\ Parse(parser.p, input) = StateErr(UnexpectedChar("b"), <<"b">>)
    /\ out = StateOk(PairV(CharV("a"), CharV("b")), <<>>)

RECURSIVE RestAfter(_, _, _)
\* The rest left by n successive applications of p starting on str
RestAfter(p, str, n) ==
    IF n = 0 THEN str ELSE Parse(p, RestAfter(p, str, n - 1)).rest

\* C10: when many(p).parse(s) returns it is Ok; its items are the results of the
\* successive successful applications of p, each on the rest of the one
\* before, and its rest is where p first failed.
C10_ManyCollects ==
    (Returned /\ parser.kind = "many") =>
        /\ IsOk(out)
        /\ LET n == Len(out.result.items)
           IN  /\ \A i \in 1..n :
                    /\ IsOk(Parse(parser.p, RestAfter(parser.p, input, i - 1)))
                    /\ out.result.items[i] =
                         Parse(parser.p, RestAfter(parser.p, input, i - 1)).result
               /\ out.rest = RestAfter(parser.p, input, n)
               /\ IsErr(Parse(parser.p, out.rest))

\* C10 witness: the loop of many(chars(alphabetic)) on "ab1" returned the
\* items 'a', 'b' and the rest "1".
C10_Witness ==
    /\ ppc = "called"
    /\ parser = Many(Chars(Alphabetic))
    /\ input = <<"a", "b", "1">>
    /\ many = <<CharV("a"), CharV("b")>>
    /\ out = StateOk(ItemsV(<<CharV("a"), CharV("b")>>), <<"1">>)

----------------------------------------------------------------------------
(* Claims on line, many_lines and grid *)

\* The first index at which t occurs in str, 0 when it does not occur.
FirstIndex(str, t) ==
    IF \E i \in 1..Len(str) : HasPrefix(SubSeq(str, i, Len(str)), t)
    THEN CHOOSE i \in 1..Len(str) :
            /\ HasPrefix(SubSeq(str, i, Len(str)), t)
            /\ \A j \in 1..(i - 1) : ~HasPrefix(SubSeq(str, j, Len(str)), t)
    ELSE 0

\* The text of str before, and after, the first occurrence of t.
Before(str, t) == SubSeq(str, 1, FirstIndex(str, t) - 1)
AfterFirst(str, t) == SubSeq(str, FirstIndex(str, t) + Len(t), Len(str))

RECURSIVE LastSegment(_, _)
\* The text of str after the last occurrence of t.
LastSegment(str, t) ==
    IF FirstIndex(str, t) = 0 THEN str ELSE LastSegment(AfterFirst(str, t), t)

\* str ends with sfx.
HasSuffix(str, sfx) ==
    Len(sfx) <= Len(str) /\ SubSeq(str, Len(str) - Len(sfx) + 1, Len(str)) = sfx

\* C11: line(p, terminator).parse(s) applies p to the text before the first
\* terminator only and then consumes that terminator: when p accepts that
\* whole text the call is Ok with p's result and the rest after the terminator,
\* and when p rejects that text the call is an Err; many_lines leaves a final
\* segment that no terminator follows unparsed.
C11_LineStopsAtTerminator ==
    /\ (Returned /\ parser.kind = "line" /\ FirstIndex(input, parser.terminator) > 0) =>
         LET r == Parse(parser.p, Before(input, parser.terminator))
         IN  /\ (IsOk(r) /\ r.rest = <<>>) =>
                  out = StateOk(r.result, AfterFirst(input, parser.terminator))
             /\ IsErr(r) => IsErr(out)
    /\ (Returned /\ parser.kind = "many_lines") =>
         /\ IsOk(out)
         /\ HasSuffix(out.rest, LastSegment(input, parser.terminator))

RECURSIVE SplitRows(_, _)
\* The row texts of an input in which every row is followed by t.
SplitRows(str, t) ==
    IF str = <<>> THEN <<>>
    ELSE <<Before(str, t)>> \o SplitRows(AfterFirst(str, t), t)

\* The number of tokens of a row text: single characters p accepts with sep
\* between them; 0 when the text is not such a row.
TokenCount(row, p, sep) ==
    LET step == 1 + Len(sep)
        pred == IF p.kind = "char" THEN {p.c} ELSE p.pred
    IN  IF /\ Len(row) >= 1
           /\ (Len(row) - 1) % step = 0
           /\ \A i \in 1..Len(row) :
                IF (i - 1) % step = 0 THEN row[i] \in pred
                ELSE row[i] = sep[(i - 1) % step]
        THEN (Len(row) - 1) \div step + 1
        ELSE 0

\* The tokens of a row text, in order.
RowTokens(row, p, sep) ==
    [k \in 1..TokenCount(row, p, sep) |-> CharV(row[(k - 1) * (1 + Len(sep)) + 1])]

RECURSIVE Flatten(_)
Flatten(rows) == IF rows = <<>> THEN <<>> ELSE Head(rows) \o Flatten(Tail(rows))

\* The input of the grid call is one or more rows of tokens, each followed by
\* the terminator.
InputIsRows ==
    /\ input # <<>>
    /\ HasSuffix(input, parser.terminator)
    /\ \A i \in 1..Len(SplitRows(input, parser.terminator)) :
         TokenCount(SplitRows(input, parser.terminator)[i], parser.p, parser.seperator) > 0

\* C12: on rows of tokens, grid(p, separator, terminator).parse(s) is an Err when
\* some row's token count differs from the first row's; when all rows agree it
\* is Ok with a Grid of one row per input row and as many columns as the
\* first row, the tokens in row-major order; and the call never panics.
C12_GridRejectsRaggedRows ==
    /\ ppc # "panicked"
    /\ (Returned /\ parser.kind = "grid" /\ InputIsRows) =>
         LET rows == SplitRows(input, parser.terminator)
             count(i) == TokenCount(rows[i], parser.p, parser.seperator)
         IN  IF \E i \in 1..Len(rows) : count(i) # count(1)
             THEN IsErr(out)
             ELSE out = StateOk(Grid(GridDimensions(0, Len(rows), 0, count(1)),
                                     Flatten([i \in 1..Len(rows) |->
                                                RowTokens(rows[i], parser.p,
                                                          parser.seperator)])),
                                <<>>)

----------------------------------------------------------------------------
(* Grid: construction, get, get_mut and set (src/src/grid/grid.rs) *)

\* Largest number of rows, and of columns, asked of a constructor.
MaxDim == 2
\* Longest row handed to of_list_of_lists.
MaxRowLen == 2
\* Most rows handed to of_list_of_lists.
MaxRows == 3
\* Longest vector handed to from.
MaxItems == 4

CellValues == {0, 1}
Dims == 0..MaxDim
ItemVecs == UNION { [1..n -> CellValues] : n \in 0..MaxItems }
RowVecs == UNION { [1..n -> CellValues] : n \in 0..MaxRowLen }
ListsOfLists == UNION { [1..n -> RowVecs] : n \in 0..MaxRows }
\* The points get, get_mut and set are called with: inside and outside.
GridPoints == { GridPoint(r, c) : r \in 0..MaxDim, c \in 0..MaxDim }

notGridVars == <<searchVars, intervalVars, parseVars, pointVars, numberVars, setVars, compareVars, isectVars, gcdVars, diffVars>>

InitGrid ==
    /\ GridIdle
    /\ SearchIdle /\ IntervalIdle /\ ParseIdle
    /\ UtilIdle

\* What a constructor that returned o leaves: the grid when o is Some.
Constructed(o) == IF o = NoneOpt THEN [st |-> "none"] ELSE Unwrap(o)

\* Grid::init(init, rows, cols)
GridInit ==
    /\ gridOp.op = "none"
    /\ \E init \in CellValues, rows \in Dims, cols \in Dims :
         /\ gridOp' = [op |-> "init", init |-> init, rows |-> rows, cols |-> cols]
         /\ gridRet' = Grid(GridDimensions(0, rows, 0, cols), [i \in 1..(rows * cols) |-> init])
         /\ grid' = Grid(GridDimensions(0, rows, 0, cols), [i \in 1..(rows * cols) |-> init])
    /\ gridOld' = grid
    /\ UNCHANGED notGridVars

\* Grid::from(v, rows, cols)
GridFrom ==
    /\ gridOp.op = "none"
    /\ \E v \in ItemVecs, rows \in Dims, cols \in Dims :
         /\ gridOp' = [op |-> "from", v |-> v, rows |-> rows, cols |-> cols]
         /\ gridRet' = Grid_from(v, rows, cols)
         /\ grid' = Constructed(Grid_from(v, rows, cols))
    /\ gridOld' = grid
    /\ UNCHANGED notGridVars

\* Grid::of_list_of_lists(v, rows, cols)
GridOfListOfLists ==
    /\ gridOp.op = "none"
    /\ \E v \in ListsOfLists, rows \in Dims, cols \in Dims :
         /\ gridOp' = [op |-> "of_list_of_lists", v |-> v, rows |-> rows, cols |-> cols]
         /\ gridRet' = of_list_of_lists(v, rows, cols)
         /\ grid' = Constructed(of_list_of_lists(v, rows, cols))
    /\ gridOld' = grid
    /\ UNCHANGED notGridVars

\* grid.get(point)
GridGet ==
    /\ grid # [st |-> "none"]
    /\ \E point \in GridPoints :
         /\ gridOp' = [op |-> "get", point |-> point]
         /\ gridRet' = Grid_get(grid, point)
    /\ gridOld' = grid
    /\ UNCHANGED <<grid, notGridVars>>

\* grid.get_mut(point)
GridGetMut ==
    /\ grid # [st |-> "none"]
    /\ \E point \in GridPoints :
         /\ gridOp' = [op |-> "get_mut", point |-> point]
         /\ gridRet' = Grid_get_mut(grid, point)
    /\ gridOld' = grid
    /\ UNCHANGED <<grid, notGridVars>>

\* grid.set(point, value)
GridSet ==
    /\ grid # [st |-> "none"]
    /\ \E point \in GridPoints, value \in CellValues :
         /\ gridOp' = [op |-> "set", point |-> point, value |-> value]
         /\ gridRet' = Grid_set(grid, point, value).ret
         /\ grid' = Grid_set(grid, point, value).grid
    /\ gridOld' = grid
    /\ UNCHANGED notGridVars

NextGrid == GridInit \/ GridFrom \/ GridOfListOfLists \/ GridGet \/ GridGetMut \/ GridSet

SpecGrid == InitGrid /\ [][NextGrid]_vars

----------------------------------------------------------------------------
(* Claims on Grid *)

\* The last operation was get, get_mut or set on a point.
Indexed == gridOp.op \in {"get", "get_mut", "set"}

\* C13: after set(p, v) on a point inside the dimensions the call returned
\* Ok, get(p) is Ok(&v) and every other cell kept its value; get, get_mut and
\* set on a point outside the dimensions return Err(IndexOutOfBoundsError)
\* with that point and the dimensions and leave the grid as it was.
C13_GetSetWithinDimensions ==
    /\ (gridOp.op = "set" /\ dimensions_contains(gridOld.dimensions, gridOp.point)) =>
         /\ gridRet = IndexOk(UnitV)
         /\ Grid_get(grid, gridOp.point) = IndexOk(gridOp.value)
         /\ grid.dimensions = gridOld.dimensions
         /\ Len(grid.grid) = Len(gridOld.grid)
         /\ \A i \in 1..Len(grid.grid) :
              i # point_as_arr_idx(gridOld.dimensions, gridOp.point) + 1 =>
                  grid.grid[i] = gridOld.grid[i]
    /\ (Indexed /\ ~dimensions_contains(gridOld.dimensions, gridOp.point)) =>
         /\ gridRet = IndexErr(IndexOutOfBoundsError(gridOld.dimensions, gridOp.point))
         /\ grid = gridOld

\* C14: Grid::from returns Some exactly when rows * cols elements were
\* supplied, Grid::of_list_of_lists exactly when `rows` lists of `cols`
\* elements each were supplied, and every constructed Grid holds
\* rows * cols elements.
C14_ConstructionIsSizeChecked ==
    /\ gridOp.op = "from" =>
         (gridRet # NoneOpt <=> Len(gridOp.v) = gridOp.rows * gridOp.cols)
    /\ gridOp.op = "of_list_of_lists" =>
         (gridRet # NoneOpt <=>
             /\ Len(gridOp.v) = gridOp.rows
             /\ \A i \in 1..Len(gridOp.v) : Len(gridOp.v[i]) = gridOp.cols)
    /\ grid # [st |-> "none"] =>
         Len(grid.grid) = dimensions_rows(grid.dimensions) * dimensions_cols(grid.dimensions)

----------------------------------------------------------------------------
(* GridPoint::add_checked, traverse_by and traverse_to                     *)
(* (src/src/grid/grid_point.rs, src/src/grid/iterators.rs), for            *)
(* GridPoint<usize> and GridPointDelta<isize> of WordBits bits             *)

\* Width of usize and isize.
WordBits == 3
\* Most points the model lets an iterator yield.
MaxYield == 8

UsizeMax == 2^WordBits - 1
IsizeMax == 2^(WordBits - 1) - 1
IsizeMin == -(2^(WordBits - 1))
Usize == 0..UsizeMax
Isize == IsizeMin..IsizeMax

\* GridPointDelta::new
GridPointDelta(row_delta, col_delta) == [row_delta |-> row_delta, col_delta |-> col_delta]

\* isize::try_from(x) of a usize x, as an Option
isize_try_from(x) == IF x <= IsizeMax THEN Some(x) ELSE NoneOpt

\* x + y in isize: overflow panics in a build with overflow checks and wraps
\* in a build without them
isize_add(x, y, checks) ==
    IF x + y \in Isize THEN [st |-> "ok", v |-> x + y]
    ELSE IF checks THEN [st |-> "panic"]
    ELSE [st |-> "ok", v |-> ((x + y - IsizeMin) % 2^WordBits) + IsizeMin]

\* One coordinate of add_checked:
\* (S::try_from(x).ok()? + delta).try_into().ok()?
checked_coordinate(x, delta, checks) ==
    IF isize_try_from(x) = NoneOpt THEN [st |-> "none"]
    ELSE IF isize_add(x, delta, checks).st = "panic" THEN [st |-> "panic"]
    ELSE IF isize_add(x, delta, checks).v < 0 THEN [st |-> "none"]
    ELSE [st |-> "ok", v |-> isize_add(x, delta, checks).v]

\* A call that returned v, and a call that panicked.
Ret(v) == [st |-> "ret", value |-> v]
Panicked == [st |-> "panic"]

\* GridPoint::add_checked
add_checked(self, rhs, dims, checks) ==
    LET row == checked_coordinate(self.row, rhs.row_delta, checks)
        col == checked_coordinate(self.col, rhs.col_delta, checks)
    IN  CASE row.st = "panic" -> Panicked
          [] row.st = "none" -> Ret(NoneOpt)
          [] col.st = "panic" -> Panicked
          [] col.st = "none" -> Ret(NoneOpt)
          [] OTHER -> IF dimensions_contains(dims, GridPoint(row.v, col.v))
                      THEN Ret(Some(GridPoint(row.v, col.v)))
                      ELSE Ret(NoneOpt)

\* GridPoint::sub: the delta from rhs to self, None when a coordinate does
\* not fit isize
point_sub(self, rhs) ==
    IF \/ isize_try_from(self.row) = NoneOpt \/ isize_try_from(rhs.row) = NoneOpt
       \/ isize_try_from(self.col) = NoneOpt \/ isize_try_from(rhs.col) = NoneOpt
    THEN NoneOpt
    ELSE Some(GridPointDelta(self.row - rhs.row, self.col - rhs.col))

RECURSIVE gcd(_, _)
\* gcd of grid_point.rs
gcd(a, b) ==
    IF a < 0 THEN gcd(-a, b)
    ELSE IF b < 0 THEN gcd(a, -b)
    ELSE IF b = 0 THEN a
    ELSE gcd(b, a % b)

\* GridPointDelta::min_step: the division panics when the gcd is zero
min_step(d) ==
    IF gcd(d.row_delta, d.col_delta) = 0 THEN Panicked
    ELSE Ret(GridPointDelta(d.row_delta \div gcd(d.row_delta, d.col_delta),
                            d.col_delta \div gcd(d.row_delta, d.col_delta)))

Larger(x, y) == IF x >= y THEN x ELSE y
Smaller(x, y) == IF x <= y THEN x ELSE y

\* GridDimensions::of_points_inclusive: Step::forward panics past usize::MAX
of_points_inclusive(a, b) ==
    IF Larger(a.row, b.row) = UsizeMax \/ Larger(a.col, b.col) = UsizeMax THEN Panicked
    ELSE Ret(GridDimensions(Smaller(a.row, b.row), Larger(a.row, b.row) + 1,
                            Smaller(a.col, b.col), Larger(a.col, b.col) + 1))

\* GridPoint::<usize>::traverse_to: the iterator it returns
traverse_to(self, other) ==
    CASE point_sub(other, self) = NoneOpt -> Ret(NoneOpt)
      [] min_step(Unwrap(point_sub(other, self))).st = "panic" -> Panicked
      [] of_points_inclusive(self, other).st = "panic" -> Panicked
      [] OTHER ->
           Ret(Some([next |-> Some(self),
                     traverse_by |-> min_step(Unwrap(point_sub(other, self))).value,
                     grid_dimensions |-> of_points_inclusive(self, other).value]))

Points == { GridPoint(r, c) : r \in Usize, c \in Usize }
Deltas == { GridPointDelta(r, c) : r \in Isize, c \in Isize }
\* The boxes of the add_checked and traverse_by calls
Boxes ==
    { GridDimensions(rows[1], rows[2], cols[1], cols[2]) :
        rows \in { <<0, IsizeMax>>, <<1, UsizeMax>> },
        cols \in { <<0, IsizeMax>>, <<1, UsizeMax>> } }

notPointVars == <<searchVars, intervalVars, parseVars, gridVars, numberVars, setVars, compareVars, isectVars, gcdVars, diffVars>>

InitPoint ==
    /\ PointIdle
    /\ SearchIdle /\ IntervalIdle /\ ParseIdle
    /\ UtilIdle

\* p.add_checked(d, &D)
AddChecked ==
    /\ ptPc = "idle"
    /\ \E p \in Points, d \in Deltas, D \in Boxes, checks \in BOOLEAN :
         /\ ptOp' = [op |-> "add_checked", point |-> p, delta |-> d, dims |-> D,
                     checks |-> checks]
         /\ ptRet' = add_checked(p, d, D, checks)
         /\ ptPc' = IF add_checked(p, d, D, checks).st = "panic" THEN "panicked"
                    ELSE "returned"
    /\ UNCHANGED <<next, traverse_by, grid_dimensions, yielded, notPointVars>>

\* p.traverse_by(d, D)
TraverseBy ==
    /\ ptPc = "idle"
    /\ \E p \in Points, d \in Deltas, D \in Boxes, checks \in BOOLEAN :
         /\ ptOp' = [op |-> "traverse_by", point |-> p, delta |-> d, dims |-> D,
                     checks |-> checks]
         /\ next' = Some(p)
         /\ traverse_by' = d
         /\ grid_dimensions' = D
    /\ yielded' = <<>>
    /\ ptPc' = "iterating"
    /\ UNCHANGED <<ptRet, notPointVars>>

\* a.traverse_to(b)
TraverseTo ==
    /\ ptPc = "idle"
    /\ \E a \in Points, b \in Points, checks \in BOOLEAN :
         /\ ptOp' = [op |-> "traverse_to", point |-> a, other |-> b, checks |-> checks]
         /\ ptRet' = traverse_to(a, b)
         /\ IF traverse_to(a, b).st = "panic"
            THEN /\ ptPc' = "panicked"
                 /\ UNCHANGED <<next, traverse_by, grid_dimensions>>
            ELSE IF traverse_to(a, b).value = NoneOpt
            THEN /\ ptPc' = "returned"
                 /\ UNCHANGED <<next, traverse_by, grid_dimensions>>
            ELSE /\ ptPc' = "iterating"
                 /\ next' = Unwrap(traverse_to(a, b).value).next
                 /\ traverse_by' = Unwrap(traverse_to(a, b).value).traverse_by
                 /\ grid_dimensions' = Unwrap(traverse_to(a, b).value).grid_dimensions
    /\ yielded' = <<>>
    /\ UNCHANGED notPointVars

\* GridPointIterator::next
IteratorNext ==
    /\ ptPc = "iterating"
    /\ Len(yielded) < MaxYield
    /\ IF next = NoneOpt
       THEN /\ ptPc' = "done"
            /\ UNCHANGED <<next, yielded>>
       ELSE IF add_checked(Unwrap(next), traverse_by, grid_dimensions, ptOp.checks).st = "panic"
       THEN /\ ptPc' = "panicked"
            /\ UNCHANGED <<next, yielded>>
       ELSE /\ next' = add_checked(Unwrap(next), traverse_by, grid_dimensions,
                                   ptOp.checks).value
            /\ yielded' = Append(yielded, Unwrap(next))
            /\ ptPc' = ptPc
    /\ UNCHANGED <<traverse_by, grid_dimensions, ptOp, ptRet, notPointVars>>

NextPoint == AddChecked \/ TraverseBy \/ TraverseTo \/ IteratorNext

SpecPoint == InitPoint /\ [][NextPoint]_vars

----------------------------------------------------------------------------
(* Claims on GridPoint *)

\* The point p + k*d in the integers, not in machine words.
Moved(p, d, k) == GridPoint(p.row + k * d.row_delta, p.col + k * d.col_delta)

\* C15: p.add_checked(d, D) never panics and returns Some(p + d) exactly when
\* p + d lies in D, None otherwise; p.traverse_by(d, D) from a point of D
\* yields p, p + d, p + 2d, ... and ends just before the first point outside D.
C15_AddCheckedStaysInBox ==
    /\ ptOp.op = "add_checked" =>
         /\ ptPc # "panicked"
         /\ ptRet = IF dimensions_contains(ptOp.dims, Moved(ptOp.point, ptOp.delta, 1))
                    THEN Ret(Some(Moved(ptOp.point, ptOp.delta, 1)))
                    ELSE Ret(NoneOpt)
    /\ (ptOp.op = "traverse_by" /\ dimensions_contains(ptOp.dims, ptOp.point)) =>
         /\ ptPc # "panicked"
         /\ \A i \in 1..Len(yielded) :
              /\ yielded[i] = Moved(ptOp.point, ptOp.delta, i - 1)
              /\ dimensions_contains(ptOp.dims, yielded[i])
         /\ ptPc = "done" =>
              ~dimensions_contains(ptOp.dims, Moved(ptOp.point, ptOp.delta, Len(yielded)))

\* The greatest common divisor of |x| and |y|, by definition; 0 for 0 and 0.
Abs(x) == IF x < 0 THEN -x ELSE x
Divides(k, x) == \E q \in 0..Abs(x) : k * q = Abs(x)
GreatestCommonDivisor(x, y) ==
    IF x = 0 /\ y = 0 THEN 0
    ELSE CHOOSE k \in 1..Larger(Abs(x), Abs(y)) :
            /\ Divides(k, x) /\ Divides(k, y)
            /\ \A j \in (k + 1)..Larger(Abs(x), Abs(y)) : ~(Divides(j, x) /\ Divides(j, y))

\* C16: a.traverse_to(b) does not panic and produces a sequence that starts
\* at a, steps by (b - a) / gcd(|row delta|, |col delta|), and ends at b.
C16_TraverseToReachesOther ==
    ptOp.op = "traverse_to" =>
        LET a == ptOp.point
            b == ptOp.other
            g == GreatestCommonDivisor(b.row - a.row, b.col - a.col)
        IN  /\ ptPc # "panicked"
            /\ ptRet # Ret(NoneOpt)
            /\ Len(yielded) <= g + 1
            /\ \A i \in 1..Len(yielded) :
                 yielded[i] = GridPoint(a.row + (i - 1) * ((b.row - a.row) \div g),
                                        a.col + (i - 1) * ((b.col - a.col) \div g))
            /\ ptPc = "done" => (yielded # <<>> /\ yielded[Len(yielded)] = b)

----------------------------------------------------------------------------
(* number_theory: bezout_coefficients and the Chinese remainder functions  *)
(* (src/src/number_theory/bezout_coefficients.rs, chinese_remainder.rs)    *)

\* Largest argument of bezout_coefficients.
MaxBezout == 48
\* Largest modulus of the Chinese remainder calls.
MaxModulus == 4
\* Largest remainder, in absolute value, of the Chinese remainder calls.
MaxRemainder == 3
\* Most pairs handed to chinese_remainder_many.
MaxPairs == 3

\* Rust's / and % on integers: the quotient is truncated toward zero
TruncDiv(x, y) ==
    IF (x >= 0) = (y >= 0)
    THEN (IF x < 0 THEN -x ELSE x) \div (IF y < 0 THEN -y ELSE y)
    ELSE -((IF x < 0 THEN -x ELSE x) \div (IF y < 0 THEN -y ELSE y))
TruncRem(x, y) == x - y * TruncDiv(x, y)

\* BezoutCoefficients::init
BezoutCoefficients(r, sc, tc) == [r |-> r, s |-> sc, t |-> tc]

\* A rem_assign that leaves the coefficient t as it is.
rem_assign_without_t(self, rhs) ==
    [r |-> self.r - rhs.r * TruncDiv(self.r, rhs.r),
     s |-> self.s - rhs.s * TruncDiv(self.r, rhs.r),
     t |-> self.t]

\* BezoutCoefficients %= BezoutCoefficients
rem_assign(self, rhs) ==
    [r |-> self.r - rhs.r * TruncDiv(self.r, rhs.r),
     s |-> self.s - rhs.s * TruncDiv(self.r, rhs.r),
     t |-> self.t - rhs.t * TruncDiv(self.r, rhs.r)]

\* BezoutCoefficients::is_terminal
is_terminal(c) == c.r = 0

RECURSIVE extended_euclidean_algoritm(_, _)
\* extended_euclidean_algoritm as a nested call: a %= b, swap, until b is terminal
extended_euclidean_algoritm(a, b) ==
    IF is_terminal(b) THEN a
    ELSE extended_euclidean_algoritm(b, rem_assign(a, b))

\* BezoutCoefficients::to_tuple
to_tuple(c) == <<c.r, c.s, c.t>>

\* bezout_coefficients
bezout_coefficients(a, b) ==
    to_tuple(extended_euclidean_algoritm(BezoutCoefficients(a, 1, 0),
                                         BezoutCoefficients(b, 0, 1)))

\* A chinese_remainder_with_modulus that skips the division by the gcd.
chinese_remainder_undivided(remainder_a, modulus_a, remainder_b, modulus_b) ==
    LET bz == bezout_coefficients(modulus_a, modulus_b)
    IN  IF TruncRem(remainder_a, bz[1]) = TruncRem(remainder_b, bz[1])
        THEN Some(<<remainder_a * modulus_b * bz[3] + remainder_b * modulus_a * bz[2],
                    modulus_a * modulus_b>>)
        ELSE NoneOpt

\* chinese_remainder_with_modulus
chinese_remainder_with_modulus(remainder_a, modulus_a, remainder_b, modulus_b) ==
    LET bz == bezout_coefficients(modulus_a, modulus_b)
        gcd_ab == bz[1]
        coef_a == bz[2]
        coef_b == bz[3]
    IN  IF gcd_ab = 1
        THEN Some(<<TruncRem(remainder_a * modulus_b * coef_b
                                + remainder_b * modulus_a * coef_a,
                             modulus_a * modulus_b),
                    modulus_a * modulus_b>>)
        ELSE IF TruncRem(remainder_a, gcd_ab) = TruncRem(remainder_b, gcd_ab)
        THEN Some(<<TruncDiv(remainder_a * modulus_b * coef_b
                                + remainder_b * modulus_a * coef_a,
                             gcd_ab),
                    TruncDiv(modulus_a * modulus_b, gcd_ab)>>)
        ELSE NoneOpt

\* Option::map(|(remainder, _)| remainder)
map_remainder(o) == IF o = NoneOpt THEN NoneOpt ELSE Some(Unwrap(o)[1])

\* chinese_remainder
chinese_remainder(remainder_a, modulus_a, remainder_b, modulus_b) ==
    map_remainder(chinese_remainder_with_modulus(remainder_a, modulus_a,
                                                 remainder_b, modulus_b))

\* The closure chinese_remainder_many_with_modulus folds with
fold_step(o, pair) ==
    IF o = NoneOpt THEN NoneOpt
    ELSE chinese_remainder_with_modulus(Unwrap(o)[1], Unwrap(o)[2], pair[1], pair[2])

Moduli == 1..MaxModulus
\* The arguments of the two-pair calls: the bounded range and the pairs of
\* tests::two_non_coprime_moduli
TwoPairArgs ==
    { <<ra, ma, rb, mb>> : ra \in -MaxRemainder..MaxRemainder, ma \in Moduli,
                           rb \in -MaxRemainder..MaxRemainder, mb \in Moduli }
    \cup { <<13, 25, 8, 10>>, <<13, 25, 9, 10>> }
\* The pairs (r_i, m_i) of chinese_remainder_many
Pairs == { <<r, m>> : r \in 0..MaxRemainder, m \in Moduli }
PairLists == UNION { [1..n -> Pairs] : n \in 0..MaxPairs }

notNumberVars == <<searchVars, intervalVars, parseVars, gridVars, pointVars, setVars, compareVars, isectVars, gcdVars, diffVars>>

InitNumber ==
    /\ NumberIdle
    /\ SearchIdle /\ IntervalIdle /\ ParseIdle
    /\ UtilIdle

\* bezout_coefficients(a, b), entry
BezoutCall ==
    /\ nt_pc = "idle"
    /\ \E a \in 0..MaxBezout, b \in 0..MaxBezout :
         /\ nt_op' = [op |-> "bezout_coefficients", a |-> a, b |-> b]
         /\ bez_a' = BezoutCoefficients(a, 1, 0)
         /\ bez_b' = BezoutCoefficients(b, 0, 1)
    /\ nt_pc' = "euclid"
    /\ UNCHANGED <<nt_ret, crt_acc, crt_iter, notNumberVars>>

\* extended_euclidean_algoritm, one iteration: a %= b.clone(); swap(&mut a, &mut b)
EuclidStep ==
    /\ nt_pc = "euclid"
    /\ ~is_terminal(bez_b)
    /\ bez_a' = bez_b
    /\ bez_b' = rem_assign(bez_a, bez_b)
    /\ UNCHANGED <<nt_op, nt_ret, crt_acc, crt_iter, nt_pc, notNumberVars>>

\* extended_euclidean_algoritm, loop exit, and bezout_coefficients' to_tuple
EuclidReturn ==
    /\ nt_pc = "euclid"
    /\ is_terminal(bez_b)
    /\ nt_ret' = [st |-> "ret", tuple |-> to_tuple(bez_a)]
    /\ nt_pc' = "returned"
    /\ UNCHANGED <<nt_op, bez_a, bez_b, crt_acc, crt_iter, notNumberVars>>

\* chinese_remainder_with_modulus(r_a, m_a, r_b, m_b)
ChineseRemainderWithModulus ==
    /\ nt_pc = "idle"
    /\ \E args \in TwoPairArgs :
         /\ nt_op' = [op |-> "chinese_remainder_with_modulus", args |-> args]
         /\ nt_ret' = [st |-> "ret", pair |->
                        chinese_remainder_with_modulus(args[1], args[2], args[3], args[4])]
    /\ nt_pc' = "returned"
    /\ UNCHANGED <<bez_a, bez_b, crt_acc, crt_iter, notNumberVars>>

\* chinese_remainder(r_a, m_a, r_b, m_b)
ChineseRemainder ==
    /\ nt_pc = "idle"
    /\ \E args \in TwoPairArgs :
         /\ nt_op' = [op |-> "chinese_remainder", args |-> args]
         /\ nt_ret' = [st |-> "ret", remainder |->
                        chinese_remainder(args[1], args[2], args[3], args[4])]
    /\ nt_pc' = "returned"
    /\ UNCHANGED <<bez_a, bez_b, crt_acc, crt_iter, notNumberVars>>

\* chinese_remainder_many(iter), entry: the fold starts from Some((0, 1))
ChineseRemainderMany ==
    /\ nt_pc = "idle"
    /\ \E pairs \in PairLists :
         /\ nt_op' = [op |-> "chinese_remainder_many", pairs |-> pairs]
         /\ crt_iter' = pairs
    /\ crt_acc' = Some(<<0, 1>>)
    /\ nt_pc' = "fold"
    /\ UNCHANGED <<nt_ret, bez_a, bez_b, notNumberVars>>

\* chinese_remainder_many_with_modulus, one step of the fold
FoldStep ==
    /\ nt_pc = "fold"
    /\ crt_iter # <<>>
    /\ crt_acc' = fold_step(crt_acc, Head(crt_iter))
    /\ crt_iter' = Tail(crt_iter)
    /\ UNCHANGED <<nt_op, nt_ret, bez_a, bez_b, nt_pc, notNumberVars>>

\* chinese_remainder_many: the fold is over, .map(|(r_a, _)| r_a)
FoldReturn ==
    /\ nt_pc = "fold"
    /\ crt_iter = <<>>
    /\ nt_ret' = [st |-> "ret", remainder |-> map_remainder(crt_acc)]
    /\ nt_pc' = "returned"
    /\ UNCHANGED <<nt_op, bez_a, bez_b, crt_acc, crt_iter, notNumberVars>>

NextNumber ==
    \/ BezoutCall \/ EuclidStep \/ EuclidReturn
    \/ ChineseRemainderWithModulus \/ ChineseRemainder
    \/ ChineseRemainderMany \/ FoldStep \/ FoldReturn

SpecNumber == InitNumber /\ [][NextNumber]_vars

\* The loop of extended_euclidean_algoritm runs on until it exits: nothing
\* else shares the thread.
SpecNumberFair ==
    SpecNumber /\ WF_<<bez_a, bez_b>>(EuclidStep) /\ WF_nt_pc(EuclidReturn)

----------------------------------------------------------------------------
(* Claims on number_theory *)

\* x is congruent to r modulo m, for m > 0.
Congruent(x, r, m) == (x - r) % m = 0

\* The least common multiple of two positive integers, by definition.
LeastCommonMultiple(x, y) ==
    CHOOSE k \in 1..(x * y) :
        /\ k % x = 0 /\ k % y = 0
        /\ \A j \in 1..(k - 1) : ~(j % x = 0 /\ j % y = 0)

\* C17: whenever chinese_remainder_with_modulus(r_a, m_a, r_b, m_b) returns
\* Some((N, M)), N is congruent to r_a modulo m_a and to r_b modulo m_b and M
\* is the least common multiple of m_a and m_b; (0, 3, 3, 4) gives (-9, 12)
\* and (13, 25, 8, 10) gives (-12, 50).
C17_ChineseRemainderIsCongruent ==
    (nt_op.op = "chinese_remainder_with_modulus" /\ nt_pc = "returned") =>
        /\ nt_ret.pair # NoneOpt =>
             /\ Congruent(Unwrap(nt_ret.pair)[1], nt_op.args[1], nt_op.args[2])
             /\ Congruent(Unwrap(nt_ret.pair)[1], nt_op.args[3], nt_op.args[4])
             /\ Unwrap(nt_ret.pair)[2] = LeastCommonMultiple(nt_op.args[2], nt_op.args[4])
        /\ nt_op.args = <<0, 3, 3, 4>> => nt_ret.pair = Some(<<-9, 12>>)
        /\ nt_op.args = <<13, 25, 8, 10>> => nt_ret.pair = Some(<<-12, 50>>)

\* C17 witness: the non-coprime moduli 25 and 10 gave (-12, 50).
C17_Witness ==
    /\ nt_pc = "returned"
    /\ nt_op = [op |-> "chinese_remainder_with_modulus", args |-> <<13, 25, 8, 10>>]
    /\ nt_ret.pair = Some(<<-12, 50>>)

RECURSIVE ProductOfModuli(_)
ProductOfModuli(pairs) ==
    IF pairs = <<>> THEN 1 ELSE Head(pairs)[2] * ProductOfModuli(Tail(pairs))

\* x satisfies every congruence x = r_i (mod m_i) of the list.
Solves(x, pairs) == \A i \in 1..Len(pairs) : Congruent(x, pairs[i][1], pairs[i][2])

\* The congruences have a common integer solution: one lies below the product
\* of the moduli when any exists.
HasSolution(pairs) == \E x \in 0..(ProductOfModuli(pairs) - 1) : Solves(x, pairs)

\* C18: on pairs with non-negative remainders and positive moduli,
\* chinese_remainder_many returns Some(N) with N satisfying every congruence
\* whenever the congruences have a common solution, and None only when they
\* have none; the same for chinese_remainder on two pairs.
C18_ManyReturnsNoneOnlyWithoutSolution ==
    /\ (nt_op.op = "chinese_remainder_many" /\ nt_pc = "returned") =>
         IF HasSolution(nt_op.pairs)
         THEN nt_ret.remainder # NoneOpt /\ Solves(Unwrap(nt_ret.remainder), nt_op.pairs)
         ELSE nt_ret.remainder = NoneOpt
    /\ (/\ nt_op.op = "chinese_remainder" /\ nt_pc = "returned"
        /\ nt_op.args[1] >= 0 /\ nt_op.args[3] >= 0) =>
         LET pairs == << <<nt_op.args[1], nt_op.args[2]>>, <<nt_op.args[3], nt_op.args[4]>> >>
         IN  IF HasSolution(pairs)
             THEN nt_ret.remainder # NoneOpt /\ Solves(Unwrap(nt_ret.remainder), pairs)
             ELSE nt_ret.remainder = NoneOpt

\* C19: bezout_coefficients(a, b) on non-negative a and b returns (r, s, t)
\* with r = gcd(a, b) and r = s*a + t*b, and its loop always comes to an end.
C19_BezoutTerminatesWithGcd ==
    /\ [](  (nt_op.op = "bezout_coefficients" /\ nt_pc = "returned") =>
                /\ nt_ret.tuple[1] = GreatestCommonDivisor(nt_op.a, nt_op.b)
                /\ nt_ret.tuple[1] = nt_ret.tuple[2] * nt_op.a + nt_ret.tuple[3] * nt_op.b  )
    /\ (nt_pc = "euclid") ~> (nt_pc = "returned")

\* C19 witness: bezout_coefficients(12, 42) returned (6, -3, 1).
C19_Witness ==
    /\ nt_pc = "returned"
    /\ nt_op = [op |-> "bezout_coefficients", a |-> 12, b |-> 42]
    /\ nt_ret.tuple = <<6, -3, 1>>

----------------------------------------------------------------------------
(* DisjointUsizeSet: path-halving union-find over 0..n-1                   *)
(* (src/src/disjoint_set/disjoint_set.rs)                                  *)

\* Most elements of a DisjointUsizeSet.
MaxSetSize == 4

\* Node
Node(parent, rank) == [parent |-> parent, rank |-> rank]

\* Node::init
Node_init(idx) == Node(idx, 0)

\* DisjointUsizeSet::init: nodes[idx] is kept at position idx + 1
DisjointUsizeSet_init(size) == [i \in 1..size |-> Node_init(i - 1)]

\* DisjointUsizeSet::add_new, the nodes after the push
add_new(ns) == Append(ns, Node_init(Len(ns)))

\* self.nodes.get(idx)
nodes_get(ns, idx) == IF idx \in 0..(Len(ns) - 1) THEN Some(ns[idx + 1]) ELSE NoneOpt

RECURSIVE find_root_loop(_, _)
\* The loop of find_root from `current` on: the nodes it leaves and its result
find_root_loop(ns, current) ==
    IF nodes_get(ns, current) = NoneOpt THEN [nodes |-> ns, root |-> NoneOpt]
    ELSE LET parent == ns[current + 1].parent
         IN  IF current = parent THEN [nodes |-> ns, root |-> Some(current)]
             ELSE IF nodes_get(ns, parent) = NoneOpt THEN [nodes |-> ns, root |-> NoneOpt]
             ELSE LET halved == [ns EXCEPT ![current + 1].parent = ns[parent + 1].parent]
                  IN  find_root_loop(halved, halved[current + 1].parent)

\* DisjointUsizeSet::find_root
find_root(ns, key) == find_root_loop(ns, key)

\* DisjointUsizeSet::is_connected: the nodes it leaves and what it returns
is_connected(ns, a, b) ==
    LET fa == find_root(ns, a)
    IN  IF fa.root = NoneOpt THEN [nodes |-> fa.nodes, ret |-> NoneOpt]
        ELSE LET fb == find_root(fa.nodes, b)
             IN  IF fb.root = NoneOpt THEN [nodes |-> fb.nodes, ret |-> NoneOpt]
                 ELSE [nodes |-> fb.nodes, ret |-> Some(fa.root = fb.root)]

\* A union that links the keys it was given, not their roots.
union_linking_keys(ns, a, b) ==
    LET fa == find_root(ns, a)
    IN  IF fa.root = NoneOpt THEN [nodes |-> fa.nodes, ret |-> NoneOpt]
        ELSE LET fb == find_root(fa.nodes, b)
             IN  IF fb.root = NoneOpt THEN [nodes |-> fb.nodes, ret |-> NoneOpt]
                 ELSE IF fa.root = fb.root THEN [nodes |-> fb.nodes, ret |-> Some(FALSE)]
                 ELSE [nodes |-> [fb.nodes EXCEPT ![a + 1].parent = b],
                       ret |-> Some(TRUE)]

\* DisjointUsizeSet::union: the nodes it leaves and what it returns
union(ns, a, b) ==
    LET fa == find_root(ns, a)
    IN  IF fa.root = NoneOpt THEN [nodes |-> fa.nodes, ret |-> NoneOpt]
        ELSE LET fb == find_root(fa.nodes, b)
             IN  IF fb.root = NoneOpt THEN [nodes |-> fb.nodes, ret |-> NoneOpt]
                 ELSE LET root_a == Unwrap(fa.root)
                          root_b == Unwrap(fb.root)
                          n2 == fb.nodes
                      IN  IF root_a = root_b THEN [nodes |-> n2, ret |-> Some(FALSE)]
                          ELSE IF n2[root_a + 1].rank < n2[root_b + 1].rank
                          THEN [nodes |-> [n2 EXCEPT ![root_a + 1].parent = root_b],
                                ret |-> Some(TRUE)]
                          ELSE IF n2[root_a + 1].rank > n2[root_b + 1].rank
                          THEN [nodes |-> [n2 EXCEPT ![root_b + 1].parent = root_a],
                                ret |-> Some(TRUE)]
                          ELSE [nodes |-> [n2 EXCEPT ![root_a + 1] =
                                              Node(root_b, n2[root_a + 1].rank + 1)],
                                ret |-> Some(TRUE)]

\* DisjointUsizeSet::size
size(ns) == Len(ns)

\* DisjointUsizeSet::all_sets and DisjointBTreeSet::all_sets: the elements
\* grouped under self.nodes[el].parent; the lists come in the order of a
\* HashMap's values, so the result is kept as a set of sets.
all_sets(ns) ==
    { { el \in 0..(size(ns) - 1) : ns[el + 1].parent = p } :
          p \in { ns[el + 1].parent : el \in 0..(size(ns) - 1) } }

RECURSIVE find_all_roots(_, _)
\* The loop of DisjointHashSet::all_sets from element el on: the nodes the
\* find_root calls leave and the root found for each element
find_all_roots(ns, el) ==
    IF el >= size(ns) THEN [nodes |-> ns, roots |-> <<>>]
    ELSE LET f == find_root(ns, el)
             rest == find_all_roots(f.nodes, el + 1)
         IN  [nodes |-> rest.nodes, roots |-> <<Unwrap(f.root)>> \o rest.roots]

\* DisjointHashSet::all_sets, with the key of an element its index: the
\* nodes it leaves and the elements grouped under their roots
hash_all_sets(ns) ==
    LET f == find_all_roots(ns, 0)
    IN  [nodes |-> f.nodes,
         sets |-> { { el \in 0..(size(ns) - 1) : f.roots[el + 1] = r } :
                        r \in { f.roots[i] : i \in 1..Len(f.roots) } }]

\* The keys the calls are made with: every valid index and one past the largest.
SetKeys == 0..MaxSetSize

\* The class of the partition that holds x.
ClassOf(x) == CHOOSE c \in classes : x \in c

\* The indices of the set.
Elements == UNION classes

notSetVars == <<searchVars, intervalVars, parseVars, gridVars, pointVars, numberVars, compareVars, isectVars, gcdVars, diffVars>>

\* DisjointUsizeSet::empty()
InitSet ==
    /\ SetIdle
    /\ SearchIdle /\ IntervalIdle /\ ParseIdle
    /\ UtilIdle

\* DisjointUsizeSet::init(size)
SetInit ==
    /\ ds_op.op = "none"
    /\ \E n \in 0..MaxSetSize :
         /\ nodes' = DisjointUsizeSet_init(n)
         /\ classes' = { {i} : i \in 0..(n - 1) }
         /\ ds_op' = [op |-> "init", n |-> n]
    /\ ds_ret' = [st |-> "ret"]
    /\ UNCHANGED notSetVars

\* set.add_new()
AddNew ==
    /\ Len(nodes) < MaxSetSize
    /\ nodes' = add_new(nodes)
    /\ classes' = classes \cup { {Len(nodes)} }
    /\ ds_op' = [op |-> "add_new", n |-> Len(nodes)]
    /\ ds_ret' = [st |-> "ret", index |-> Len(nodes') - 1]
    /\ UNCHANGED notSetVars

\* set.union(a, b)
Union ==
    /\ \E a \in SetKeys, b \in SetKeys :
         LET u == union(nodes, a, b)
             valid == a \in Elements /\ b \in Elements
         IN  /\ nodes' = u.nodes
             /\ ds_ret' = [st |-> "ret", value |-> u.ret]
             /\ ds_op' = [op |-> "union", a |-> a, b |-> b, n |-> Len(nodes),
                          valid |-> valid,
                          distinct |-> valid /\ ClassOf(a) # ClassOf(b)]
             /\ classes' = IF valid
                           THEN (classes \ {ClassOf(a), ClassOf(b)})
                                    \cup { ClassOf(a) \cup ClassOf(b) }
                           ELSE classes
    /\ UNCHANGED notSetVars

\* set.is_connected(a, b)
IsConnected ==
    /\ \E a \in SetKeys, b \in SetKeys :
         LET c == is_connected(nodes, a, b)
         IN  /\ nodes' = c.nodes
             /\ ds_ret' = [st |-> "ret", value |-> c.ret]
             /\ ds_op' = [op |-> "is_connected", a |-> a, b |-> b, n |-> Len(nodes),
                          valid |-> a \in Elements /\ b \in Elements]
    /\ UNCHANGED <<classes, notSetVars>>

\* set.size()
Size ==
    /\ ds_op.op # "size"
    /\ ds_ret' = [st |-> "ret", size |-> size(nodes)]
    /\ ds_op' = [op |-> "size", n |-> Len(nodes)]
    /\ UNCHANGED <<nodes, classes, notSetVars>>

\* set.all_sets() of DisjointUsizeSet and DisjointBTreeSet
AllSets ==
    /\ ds_op.op # "all_sets"
    /\ ds_ret' = [st |-> "ret", sets |-> all_sets(nodes)]
    /\ ds_op' = [op |-> "all_sets", n |-> Len(nodes)]
    /\ UNCHANGED <<nodes, classes, notSetVars>>

\* set.all_sets() of DisjointHashSet
HashAllSets ==
    /\ ds_op.op # "hash_all_sets"
    /\ nodes' = hash_all_sets(nodes).nodes
    /\ ds_ret' = [st |-> "ret", sets |-> hash_all_sets(nodes).sets]
    /\ ds_op' = [op |-> "hash_all_sets", n |-> Len(nodes)]
    /\ UNCHANGED <<classes, notSetVars>>

NextSet ==
    \/ SetInit \/ AddNew \/ Union \/ IsConnected \/ Size
    \/ AllSets \/ HashAllSets

SpecSet == InitSet /\ [][NextSet]_vars

----------------------------------------------------------------------------
(* Claims on DisjointUsizeSet *)

\* C20: on valid indices is_connected(x, y) returns Some(true) exactly when x
\* and y are in one class of the equivalence closure of the pairs unioned so
\* far and Some(false) otherwise, union returns Some(true) exactly when it
\* merges two classes that were distinct, and the size stays the number of
\* elements.
C20_ConnectedIffSameClass ==
    /\ (ds_op.op = "is_connected" /\ ds_op.valid) =>
           ds_ret.value = Some(ClassOf(ds_op.a) = ClassOf(ds_op.b))
    /\ (ds_op.op = "union" /\ ds_op.valid) =>
           ds_ret.value = Some(ds_op.distinct)
    /\ ds_op.op \in {"union", "is_connected"} => size(nodes) = ds_op.n
    /\ ds_op.op = "size" => ds_ret.size = Cardinality(Elements)
    /\ Elements = 0..(size(nodes) - 1)

\* C20 witness: after unions that joined all four elements into one class,
\* is_connected(0, 3) returned Some(true).
C20_Witness ==
    /\ ds_op = [op |-> "is_connected", a |-> 0, b |-> 3, n |-> 4, valid |-> TRUE]
    /\ ds_ret.value = Some(TRUE)
    /\ classes = { 0..3 }
    /\ \E i \in 1..4 : nodes[i].rank = 1

\* C21: all_sets() of DisjointUsizeSet, DisjointBTreeSet and DisjointHashSet
\* returns the partition of all elements into the classes is_connected
\* reports: two elements share a list exactly when they are connected, and
\* there are as many lists as classes.
C21_AllSetsIsThePartition ==
    ds_op.op \in {"all_sets", "hash_all_sets"} => ds_ret.sets = classes

----------------------------------------------------------------------------
(* Claims on the search engines, continued *)

\* C22: every key is settled at most once per search: after the first pop of
\* a key (the start key included) no later step pushes entries from that key
\* onto the frontier again or changes the cost recorded for it.
C22_SettledAtMostOnce ==
    [][ \A k \in poppedKeys :
          /\ \A e \in BagToSet(to_search') :
               e.from = Some(k) => CopiesIn(e, to_search') <= CopiesIn(e, to_search)
          /\ shortest_cost(results', k) = shortest_cost(results, k) ]_vars

RECURSIVE IterOrder(_)
\* The elements of a HashSet in an order its iterator may yield them
IterOrder(S) ==
    IF S = {} THEN <<>>
    ELSE LET x == CHOOSE y \in S : TRUE IN <<x>> \o IterOrder(S \ {x})

RECURSIVE all_precedents_loop(_, _, _)
\* The while-let loop of ShortestPathPrecedentMap::all_precedents: q is the
\* VecDeque to_search, seen the HashSet built so far
all_precedents_loop(res, q, seen) ==
    IF q = <<>> THEN seen
    ELSE LET nxt == Head(q)
         IN  IF nxt \in seen THEN all_precedents_loop(res, Tail(q), seen)
             ELSE IF nxt \in DOMAIN res
             THEN all_precedents_loop(res, Tail(q) \o IterOrder(res[nxt].precedents),
                                      seen \cup {nxt})
             ELSE all_precedents_loop(res, Tail(q), seen \cup {nxt})

\* ShortestPathPrecedentMap::all_precedents
all_precedents(res, to) == all_precedents_loop(res, <<to>>, {})

\* The keys on at least one minimum-cost path from a to k.
OnMinPath(g, a, k) ==
    { j \in DOMAIN g :
        /\ MinDist(g, a, j) # NoneOpt /\ MinDist(g, j, k) # NoneOpt
        /\ Unwrap(MinDist(g, a, j)) + Unwrap(MinDist(g, j, k)) = Unwrap(MinDist(g, a, k)) }

\* The keys p with dist(p) + cost(p, j) = dist(j).
MinPredecessors(g, a, j) ==
    { p \in DOMAIN g :
        /\ MinDist(g, a, p) # NoneOpt /\ IsEdge(g, p, j)
        /\ Unwrap(MinDist(g, a, p)) + g[p][j] = Unwrap(MinDist(g, a, j)) }

\* C23: after a full search on a graph with positive costs, all_precedents(k)
\* is for every reachable key k exactly the set of keys on at least one
\* minimum-cost path from start to k, and the predecessor set recorded for
\* each key j other than start is exactly { p : dist(p) + cost(p, j) = dist(j) }.
C23_AllPrecedentsAreOnMinPaths ==
    (pc # "search" /\ finish = {} /\ PositiveCosts(graph)) =>
        /\ \A k \in Reachable(graph, start) :
             all_precedents(results, k) = OnMinPath(graph, start, k)
        /\ \A j \in Reachable(graph, start) \ {start} :
             /\ j \in DOMAIN results
             /\ results[j].precedents = MinPredecessors(graph, start, j)

----------------------------------------------------------------------------
(* Maze (src/src/grid/maze.rs): the search engines on a grid, with the     *)
(* Manhattan distance to `end` as heuristic when `end` is given            *)

\* Rows and columns of the maze grids.
MazeRows == 2
MazeCols == 3
\* Largest cost of one move.
MaxMoveCost == 2

\* enum MazeCell
MazeCell == {"Empty", "Wall"}

\* Direction::all() through From<Direction> for GridPointDelta<isize>:
\* NORTH, EAST, SOUTH, WEST of constants.rs
DirectionDeltas ==
    { GridPointDelta(-1, 0), GridPointDelta(0, 1), GridPointDelta(1, 0), GridPointDelta(0, -1) }

\* GridPointDelta::l1_norm
l1_norm(d) == Abs(d.row_delta) + Abs(d.col_delta)

\* Maze::of_grid (end is None) and Maze::of_grid_with_end (end is Some(end));
\* move_cost[b] is what the closure returns for a move into b
Maze(cells, move_cost, end) == [grid |-> cells, move_cost |-> move_cost, end |-> end]

\* impl WeightedGraphWithHeuristic for Maze: adjacent
maze_adjacent(mz, k) ==
    { p \in { Unwrap(add_checked(k, d, mz.grid.dimensions, TRUE).value) :
                d \in { x \in DirectionDeltas :
                          /\ add_checked(k, x, mz.grid.dimensions, TRUE) # Panicked
                          /\ add_checked(k, x, mz.grid.dimensions, TRUE).value # NoneOpt } } :
        Grid_get(mz.grid, p) # IndexOk("Wall") }

\* impl WeightedGraphWithHeuristic for Maze: cost
maze_cost(mz, a, b) == Some(mz.move_cost[b])

\* impl WeightedGraphWithHeuristic for Maze: cost_to_weight
maze_cost_to_weight(mz, k, c) ==
    IF mz.end # NoneOpt
    THEN l1_norm(Unwrap(point_sub(Unwrap(mz.end), k))) + c
    ELSE c

\* A frontier entry of a search on a maze
MazeEntry(mz, k, from, c) ==
    [key |-> k, from |-> from, cost |-> c, weight |-> maze_cost_to_weight(mz, k, c)]

\* The entries pushed when key k of a maze is expanded at accumulated cost c
MazeExpand(mz, k, c) ==
    SetToBag({ MazeEntry(mz, b, Some(k), c + Unwrap(maze_cost(mz, k, b))) :
                 b \in maze_adjacent(mz, k) })

\* The cells of the maze grids
MazePoints == { GridPoint(r, c) : r \in 0..(MazeRows - 1), c \in 0..(MazeCols - 1) }

\* The terrains of the maze grids: cell by cell a wall (0) or what a move
\* into the empty cell costs
Terrains == [1..(MazeRows * MazeCols) -> 0..MaxMoveCost]

\* The grid of a terrain
TerrainGrid(t) ==
    Unwrap(Grid_from([i \in 1..(MazeRows * MazeCols) |->
                        IF t[i] = 0 THEN "Wall" ELSE "Empty"],
                     MazeRows, MazeCols))

\* The move cost of a terrain: at least 1 for every move (a wall is never
\* moved into)
TerrainCost(t) ==
    [p \in MazePoints |-> IF t[p.row * MazeCols + p.col + 1] = 0 THEN 1
                          ELSE t[p.row * MazeCols + p.col + 1]]

\* The move cost |_, _| 1
UnitCost == [p \in MazePoints |-> 1]

\* shortest_distance_with_condition(start, |k, _, _| k == end, 0) on
\* Maze::of_grid(grid, move_cost) or Maze::of_grid_with_end(grid, move_cost, end)
InitMaze ==
    /\ start \in MazePoints
    /\ \E end \in MazePoints :
         /\ finish = {end}
         /\ graph \in { Maze(TerrainGrid(t), TerrainCost(t), e) :
                          t \in Terrains, e \in {NoneOpt, Some(end)} }
    /\ to_search = SetToBag({ MazeEntry(graph, start, NoneOpt, 0) })
    /\ results = EmptyMap
    /\ pc = "search"
    /\ found = NoneOpt
    /\ poppedKeys = {}
    /\ path = <<>>
    /\ pick = EmptyMap
    /\ IntervalIdle
    /\ ParseIdle
    /\ UtilIdle

\* One iteration of the while-let loop of shortest_paths_to_many on a maze
MazePop ==
    /\ pc = "search"
    /\ \E e \in BagToSet(to_search) :
         /\ IsHeapTop(e, to_search)
         /\ LET popped == to_search (-) SetToBag({e})
                pushed == IF ~contains(results, e.key)
                          THEN MazeExpand(graph, e.key, e.cost)
                          ELSE EmptyBag
            IN  /\ to_search' = popped (+) pushed
                /\ results' = maybe_add_paths(results, e.from, e.key, e.cost)
                /\ poppedKeys' = poppedKeys \cup {e.key}
                /\ IF early_finish(e.key)
                   THEN pc' = "returned" /\ found' = Some(e.key)
                   ELSE pc' = "search" /\ found' = found
    /\ UNCHANGED <<graph, start, finish, path, pick, intervalVars, parseVars, utilVars>>

NextMaze == MazePop \/ Drain

SpecMaze == InitMaze /\ [][NextMaze]_vars

\* shortest_path_count(start, end, 0) on Maze::of_grid_with_end(grid, |_, _| 1, end),
\* the grid open
InitMazeCount ==
    /\ start \in MazePoints
    /\ \E end \in MazePoints :
         /\ finish = {end}
         /\ graph = Maze(TerrainGrid([i \in 1..(MazeRows * MazeCols) |-> 1]),
                         UnitCost, Some(end))
    /\ to_search = SetToBag({ MazeEntry(graph, start, NoneOpt, 0) })
    /\ results = EmptyMap
    /\ pc = "search"
    /\ found = NoneOpt
    /\ poppedKeys = {}
    /\ path = <<>>
    /\ pick = EmptyMap
    /\ IntervalIdle
    /\ ParseIdle
    /\ UtilIdle

\* One iteration of the while-let loop of shortest_paths_to_many_with_count on a maze
MazePopCount ==
    /\ pc = "search"
    /\ \E e \in BagToSet(to_search) :
         /\ IsHeapTop(e, to_search)
         /\ LET popped == to_search (-) SetToBag({e})
                pushed == IF ~contains(results, e.key)
                          THEN MazeExpand(graph, e.key, e.cost)
                          ELSE EmptyBag
                recorded == maybe_add_paths_with_count(results, e.from, e.key, e.cost,
                                                       route_count(results, e.from))
            IN  /\ to_search' = popped (+) pushed
                /\ results' = recorded
                /\ poppedKeys' = poppedKeys \cup {e.key}
                /\ IF count_early_finish(e.key, e.cost, recorded)
                   THEN pc' = "returned" /\ found' = Some(e.key)
                   ELSE pc' = "search" /\ found' = found
    /\ UNCHANGED <<graph, start, finish, path, pick, intervalVars, parseVars, utilVars>>

NextMazeCount == MazePopCount \/ DrainCount

SpecMazeCount == InitMazeCount /\ [][NextMazeCount]_vars

----------------------------------------------------------------------------
(* Claims on Maze *)

\* The maze as a plain graph: the moves out of each cell and their costs.
MazeGraph(mz) ==
    [a \in MazePoints |-> [b \in maze_adjacent(mz, a) |-> Unwrap(maze_cost(mz, a, b))]]

\* C24: with a move cost of at least 1, a Maze built with of_grid_with_end and
\* a Maze built with of_grid give the same answer to
\* shortest_distance_with_condition stopping at key == end: the true minimum
\* cost from start to end, or None when end is unreachable, for every pop
\* order of equal weights.
C24_HeuristicAgreesWithPlain ==
    pc # "search" =>
        LET end == Unwrap(finish)
            d == MinDist(MazeGraph(graph), start, end)
        IN  IF d = NoneOpt
            THEN shortest_distance_with_condition = NoneOpt
            ELSE shortest_distance_with_condition = Some(<<end, Unwrap(d)>>)

\* C25: on an open grid with unit move cost and the heuristic on,
\* shortest_path_count(start, end, 0) is the number of distinct minimum-cost
\* paths from start to end, for every pop order of equal weights.
C25_MazePathCountIsExact ==
    pc = "returned" =>
        LET end == Unwrap(finish)
            d == MinDist(MazeGraph(graph), start, end)
        IN  shortest_path_count = Some(CountWalks(MazeGraph(graph), start, end, Unwrap(d)))

----------------------------------------------------------------------------
(* The two engines on one graph: a full run of shortest_paths_to_many, then *)
(* a full run of shortest_paths_to_many_with_count from the same start      *)

\* shortest_paths_to_many(start, |_, _, _| false, 0)
InitBoth ==
    /\ graph \in Graphs
    /\ start \in Keys
    /\ finish = {}
    /\ to_search = SetToBag({ Entry(start, NoneOpt, 0) })
    /\ results = EmptyMap
    /\ pc = "search"
    /\ found = NoneOpt
    /\ poppedKeys = {}
    /\ path = <<>>
    /\ pick = EmptyMap
    /\ IntervalIdle
    /\ ParseIdle
    /\ UtilIdle

\* The first engine's loop
BothPop == plain_costs.st = "none" /\ Pop
BothDrain == plain_costs.st = "none" /\ Drain

\* The first engine returned: its into_shortest_costs() is kept and
\* shortest_paths_to_many_with_count(start, |_, _, _| false, 0) is entered
BothSecondCall ==
    /\ pc = "returned"
    /\ plain_costs.st = "none"
    /\ plain_costs' = [st |-> "ret", costs |-> into_shortest_costs(results)]
    /\ to_search' = SetToBag({ Entry(start, NoneOpt, 0) })
    /\ results' = EmptyMap
    /\ pc' = "search"
    /\ found' = NoneOpt
    /\ poppedKeys' = {}
    /\ UNCHANGED <<graph, start, finish, path, pick, intervalVars, parseVars,
                   gridVars, pointVars, numberVars, setVars, isectVars, gcdVars, diffVars>>

\* The second engine's loop
BothPopCount == plain_costs.st = "ret" /\ PopCount
BothDrainCount == plain_costs.st = "ret" /\ DrainCount

NextBoth == BothPop \/ BothDrain \/ BothSecondCall \/ BothPopCount \/ BothDrainCount

SpecBoth == InitBoth /\ [][NextBoth]_vars

\* C26: a full run of shortest_paths_to_many and a full run of
\* shortest_paths_to_many_with_count from the same start produce the same
\* key-to-cost map: the same keys, each with the same cost.
C26_EnginesAgreeOnCosts ==
    (plain_costs.st = "ret" /\ pc = "returned") =>
        into_shortest_costs(results) = plain_costs.costs

----------------------------------------------------------------------------
(* Claims on the parser combinators, continued *)

\* C27: many(p).parse(s) terminates with a finite result for every parser p
\* and finite input s, and so do many_lines and list built on many. The
\* parsers are deterministic, so the loop of Many::parse comes to an end
\* exactly when every iteration leaves less input than it was given.
C27_ManyTerminates ==
    /\ ppc = "many" =>
         /\ Parse(parser.p, s).st # "Diverge"
         /\ IsOk(Parse(parser.p, s)) => Len(Parse(parser.p, s).rest) < Len(s)
    /\ ppc # "diverged"

----------------------------------------------------------------------------
(* Interval::intersection and Interval::intersects on a pair of intervals *)

\* a.intersection(&b)
Intersection ==
    \E a \in InputIntervals, b \in InputIntervals :
        /\ isect' = [op |-> "intersection", a |-> a, b |-> b, ret |-> intersection(a, b)]
        /\ UNCHANGED <<searchVars, intervalVars, parseVars, gridVars, pointVars,
                       numberVars, setVars, compareVars, gcdVars, diffVars>>

\* a.intersects(&b)
Intersects ==
    \E a \in InputIntervals, b \in InputIntervals :
        /\ isect' = [op |-> "intersects", a |-> a, b |-> b, answer |-> intersects(a, b)]
        /\ UNCHANGED <<searchVars, intervalVars, parseVars, gridVars, pointVars,
                       numberVars, setVars, compareVars, gcdVars, diffVars>>

InitIntersect == SearchIdle /\ IntervalIdle /\ ParseIdle /\ UtilIdle

NextIntersect == Intersection \/ Intersects

SpecIntersect == InitIntersect /\ [][NextIntersect]_vars

\* The points an interval holds, counted in halves of the unit so that every
\* interval Interval::non_empty accepts holds one: x stands for x / 2.
HalfPointsOf(i) ==
    { x \in 0..(2 * MaxVal) :
        /\ (IF i.begin.incl THEN 2 * i.begin.v <= x ELSE 2 * i.begin.v < x)
        /\ (IF i.end.incl THEN x <= 2 * i.end.v ELSE x < 2 * i.end.v) }

\* The points a returned Option<Interval> holds
HalfPointsOfOpt(o) == UNION { HalfPointsOf(i) : i \in o }

\* C28: for non-empty intervals a and b, a.intersection(b) is Some(i) with i
\* holding exactly the points held by both a and b, or None when no point is
\* in both; a.intersection(b) and b.intersection(a) hold the same points and
\* intersects is symmetric.
C28_IntersectionIsCommonPoints ==
    /\ isect.op = "intersection" =>
         /\ HalfPointsOfOpt(isect.ret) = HalfPointsOf(isect.a) \cap HalfPointsOf(isect.b)
         /\ isect.ret = NoneOpt <=> HalfPointsOf(isect.a) \cap HalfPointsOf(isect.b) = {}
         /\ HalfPointsOfOpt(isect.ret) = HalfPointsOfOpt(intersection(isect.b, isect.a))
    /\ isect.op = "intersects" =>
         /\ isect.answer = (HalfPointsOf(isect.a) \cap HalfPointsOf(isect.b) # {})
         /\ isect.answer = intersects(isect.b, isect.a)

----------------------------------------------------------------------------
(* number_theory::gcd *)

\* The arguments of a call are drawn from 0..MaxGcd
MaxGcd == 12
\* The recursion depth the model follows a call to
MaxGcdDepth == 8

\* The recursive call number_theory::gcd(a, b) makes when b is not zero:
\* gcd(b, a) if a < b, else gcd(a.clone(), b % a)
gcd_recursive_call(a, b) == IF a < b THEN <<b, a>> ELSE <<a, b % a>>

InitGcd == SearchIdle /\ IntervalIdle /\ ParseIdle /\ UtilIdle

\* number_theory::gcd(a, b) is called
GcdCall ==
    /\ gcd_frame.st = "none"
    /\ \E a \in 0..MaxGcd, b \in 0..MaxGcd :
         gcd_frame' = [st |-> "active", a0 |-> a, b0 |-> b, a |-> a, b |-> b, depth |-> 0]
    /\ UNCHANGED <<searchVars, intervalVars, parseVars, gridVars, pointVars,
                   numberVars, setVars, compareVars, isectVars, diffVars>>

\* b is not zero: the call recurses
GcdRecurse ==
    /\ gcd_frame.st = "active"
    /\ gcd_frame.b # 0
    /\ gcd_frame.depth < MaxGcdDepth
    /\ gcd_frame' = [gcd_frame EXCEPT
                       !.a = gcd_recursive_call(gcd_frame.a, gcd_frame.b)[1],
                       !.b = gcd_recursive_call(gcd_frame.a, gcd_frame.b)[2],
                       !.depth = @ + 1]
    /\ UNCHANGED <<searchVars, intervalVars, parseVars, gridVars, pointVars,
                   numberVars, setVars, compareVars, isectVars, diffVars>>

\* b is zero: a is returned, through every frame of the recursion
GcdReturn ==
    /\ gcd_frame.st = "active"
    /\ gcd_frame.b = 0
    /\ gcd_frame' = [st |-> "ret", a0 |-> gcd_frame.a0, b0 |-> gcd_frame.b0,
                     value |-> gcd_frame.a]
    /\ UNCHANGED <<searchVars, intervalVars, parseVars, gridVars, pointVars,
                   numberVars, setVars, compareVars, isectVars, diffVars>>

NextGcd == GcdCall \/ GcdRecurse \/ GcdReturn

SpecGcd == InitGcd /\ [][NextGcd]_vars

\* C29: number_theory::gcd(a, b) terminates for all non-negative a and b and
\* returns their greatest common divisor, with gcd(a, 0) = a. The function is
\* deterministic, so a call that recurses with the arguments it was given
\* never returns.
C29_GcdTerminatesWithGcd ==
    /\ (gcd_frame.st = "active" /\ gcd_frame.b # 0) =>
         gcd_recursive_call(gcd_frame.a, gcd_frame.b) # <<gcd_frame.a, gcd_frame.b>>
    /\ gcd_frame.st = "ret" =>
         /\ gcd_frame.value = GreatestCommonDivisor(gcd_frame.a0, gcd_frame.b0)
         /\ gcd_frame.b0 = 0 => gcd_frame.value = gcd_frame.a0

----------------------------------------------------------------------------
(* DifferenceSequence: derive, Iterator::next, step_back *)

\* The sequences derive is given have 1..MaxSeqLen items in -MaxElem..MaxElem
MaxSeqLen == 3
MaxElem == 2
\* next is called at most MaxNexts times on one DifferenceSequence
MaxNexts == 4

\* difference(v) of difference_sequence.rs: the differences of neighbouring items
seq_difference(v) == [idx \in 1..(Len(v) - 1) |-> v[idx + 1] - v[idx]]

RECURSIVE derive_loop(_, _)
\* The while loop of DifferenceSequence::derive
derive_loop(state, current) ==
    IF \E i \in 1..Len(current) : current[i] # 0
    THEN derive_loop(Append(state, current[1]), seq_difference(current))
    ELSE state

\* DifferenceSequence::derive(v).state
derive(v) == derive_loop(<<>>, v)

\* The state Iterator::next leaves: state[idx - 1] += state[idx] for
\* idx = 1, 2, ... in this order, so each sum takes the old state[idx]
next_state(state) ==
    [i \in 1..Len(state) |-> IF i < Len(state) THEN state[i] + state[i + 1] ELSE state[i]]

RECURSIVE step_back_loop(_, _)
\* The loop of step_back from idx down to 1 (0-based), each difference taking
\* the state[idx] the round before it has written
step_back_loop(state, idx) ==
    IF idx < 1 THEN state
    ELSE step_back_loop([state EXCEPT ![idx] = @ - state[idx + 1]], idx - 1)

\* The state step_back leaves
step_back_state(state) == step_back_loop(state, Len(state) - 1)

DiffInputs == UNION { [1..n -> (0 - MaxElem)..MaxElem] : n \in 1..MaxSeqLen }

InitDiff == SearchIdle /\ IntervalIdle /\ ParseIdle /\ UtilIdle

DiffFrame == <<searchVars, intervalVars, parseVars, gridVars, pointVars,
               numberVars, setVars, compareVars, isectVars, gcdVars>>

\* DifferenceSequence::derive(v)
Derive ==
    /\ dseq.st = "none"
    /\ \E v \in DiffInputs :
         dseq' = [st |-> "ok", v |-> v, state |-> derive(v), yielded |-> <<>>,
                  before |-> derive(v), last |-> "derive", backs |-> 0]
    /\ UNCHANGED DiffFrame

\* Iterator::next: self.state[0] panics on an empty state
DiffNext ==
    /\ dseq.st = "ok"
    /\ Len(dseq.yielded) < MaxNexts
    /\ dseq' = IF dseq.state = <<>>
               THEN [dseq EXCEPT !.st = "panic", !.last = "next"]
               ELSE [dseq EXCEPT !.yielded = Append(@, dseq.state[1]),
                                 !.before = dseq.state,
                                 !.state = next_state(dseq.state),
                                 !.last = "next"]
    /\ UNCHANGED DiffFrame

\* step_back: self.state[0] panics on an empty state
StepBack ==
    /\ dseq.st = "ok"
    /\ dseq.backs < MaxNexts
    /\ dseq' = IF dseq.state = <<>>
               THEN [dseq EXCEPT !.st = "panic", !.last = "step_back"]
               ELSE [dseq EXCEPT !.state = step_back_state(dseq.state),
                                 !.last = IF dseq.last = "next" THEN "next_step_back"
                                          ELSE "step_back",
                                 !.backs = @ + 1]
    /\ UNCHANGED DiffFrame

NextDiff == Derive \/ DiffNext \/ StepBack

SpecDiff == InitDiff /\ [][NextDiff]_vars

\* C30: for every finite non-empty integer sequence v of length n, constant
\* and all-zero ones included, DifferenceSequence::derive(v) yields v[0], ...,
\* v[n-1] as its first n items without panicking, and a step_back() right
\* after a next() restores the state that next() started from.
C30_DeriveYieldsTheSequence ==
    /\ dseq.st # "panic"
    /\ (dseq.st = "ok" /\ dseq.backs = 0) =>
         \A i \in 1..Len(dseq.yielded) : i <= Len(dseq.v) => dseq.yielded[i] = dseq.v[i]
    /\ (dseq.st = "ok" /\ dseq.last = "next_step_back") => dseq.state = dseq.before

====
